---------------------------- MODULE Spec2Model ----------------------------
(***************************************************************************)
(* A state-machine model of the Claude 3.7 Sonnet starter pack (TypeScript). *)
(* Every CLI of the repository is one "component"; the variable comp says   *)
(* which program was launched, and the other variables hold that program's  *)
(* local state, the requests it has sent to the Model Provider API, what it *)
(* has printed and its exit status.  A step of the model is the code a      *)
(* program runs between two awaits (or one round of a loop); what the       *)
(* outside world answers (the model's reply, the weather service, the       *)
(* shell) is chosen nondeterministically from small sets.                   *)
(*                                                                         *)
(* Text is modelled as sequences of one-character strings wherever the code *)
(* looks inside it (paths, commands, file contents, streamed fragments),    *)
(* and as TLA+ strings where the code only passes it on.  Command-line      *)
(* numbers are integers.                                                    *)
(***************************************************************************)
EXTENDS Integers, Sequences, FiniteSets, TLC

VARIABLES
    comp,               \* which entry point was launched
    apiKey,             \* process.env.ANTHROPIC_API_KEY is set
    argv,               \* the command line: what the user asked for
    pc,                 \* position of the program
    exitCode,           \* NoExit while running, then the process status
    out,                \* what was printed, in order
    sent,               \* the requests sent to the Model Provider API, in order
    failures,           \* the call sites whose API request was rejected
    trace,              \* Structured Output: the stages the reply went through
    thinkingBudget,     \* the (effective, once clamped) reasoning budget
    maxTokens,          \* the (effective, once raised) max_tokens
    messages,           \* runAgent: the conversation
    computeIterations,  \* runAgent: the iteration counter
    isTaskComplete,     \* runAgent: the completion flag
    maxComputeLoops,    \* runAgent: the iteration cap
    toolCalls,          \* runAgent: the tool_use blocks of the reply
    toolIdx,            \* runAgent: index of the next tool call to execute
    fs,                 \* the file system the agent tools act on
    currentBashEnv,     \* the agent's shell-environment snapshot
    lastRun,            \* runAgent: the tool call run last, with the file
                        \* system it found and the ToolResult it returned
    response,           \* the content of the (first) reply
    continuation,       \* the content of the reply to the second request
    weatherCalls,       \* the calls of getWeather, in order: location and answer
    weatherData,        \* what the last getWeather call returned
    clothingRec,        \* what getClothingRecommendation returned
    thinkingContent,    \* streaming: the reasoning text accumulated
    responseContent,    \* streaming: the answer text accumulated
    currentBlockType,   \* streaming: type of the block last started
    thinkingTokens,     \* streaming: running estimate for the reasoning
    responseTokens,     \* streaming: running estimate for the answer
    eventCount,         \* streaming: events consumed so far
    events              \* streaming: the events consumed so far, in order

cliVars == <<comp, apiKey, argv>>

budgetVars == <<thinkingBudget, maxTokens>>

agentVars == <<messages, computeIterations, isTaskComplete, maxComputeLoops,
               toolCalls, toolIdx, fs, currentBashEnv, lastRun>>

toolDemoVars == <<continuation, weatherCalls, weatherData, clothingRec>>

streamVars == <<thinkingContent, responseContent, currentBlockType,
                thinkingTokens, responseTokens, eventCount, events>>

vars == <<comp, apiKey, argv, pc, exitCode, out, sent, failures, trace,
          thinkingBudget, maxTokens, messages, computeIterations,
          isTaskComplete, maxComputeLoops, toolCalls, toolIdx, fs,
          currentBashEnv, lastRun, response, continuation, weatherCalls, weatherData,
          clothingRec, thinkingContent, responseContent, currentBlockType,
          thinkingTokens, responseTokens, eventCount, events>>

-----------------------------------------------------------------------------
(* Optional values: a JavaScript value that may be undefined.               *)

None == <<>>

Some(x) == <<x>>

(* exitCode while the process is still running *)
NoExit == 0 - 1

(* The iteration caps the agent is started with range over -1..MaxLoops.    *)
MaxLoops == 2

(* A streamed reply has at most MaxEvents events.                           *)
MaxEvents == 3

(* The weather service answers with a code in 0..MaxCode, or with none.     *)
MaxCode == 100

-----------------------------------------------------------------------------
(* Strings as sequences of characters.                                      *)

IsSpace(c) == c \in {" ", "\n", "\t"}

RECURSIVE TrimStart(_)
TrimStart(s) ==
    IF s # <<>> /\ IsSpace(Head(s)) THEN TrimStart(Tail(s)) ELSE s

RECURSIVE TrimEnd(_)
TrimEnd(s) ==
    IF s # <<>> /\ IsSpace(s[Len(s)])
    THEN TrimEnd(SubSeq(s, 1, Len(s) - 1))
    ELSE s

(* String.prototype.trim *)
Trim(s) == TrimEnd(TrimStart(s))

MatchesAt(s, pat, i) ==
    /\ i >= 1
    /\ i + Len(pat) - 1 <= Len(s)
    /\ SubSeq(s, i, i + Len(pat) - 1) = pat

(* String.prototype.indexOf, 1-based; 0 when pat does not occur *)
IndexOf(s, pat) ==
    LET hits == {i \in 1..(Len(s) + 1) : MatchesAt(s, pat, i)}
    IN IF hits = {} THEN 0 ELSE CHOOSE i \in hits : \A j \in hits : i <= j

(* String.prototype.includes *)
Includes(s, pat) == IndexOf(s, pat) # 0

ReplaceLast(s, pat, rep) ==
    LET hits == {i \in 1..(Len(s) + 1) : MatchesAt(s, pat, i)}
    IN IF hits = {}
       THEN s
       ELSE LET i == CHOOSE h \in hits : \A j \in hits : j <= h
            IN SubSeq(s, 1, i - 1) \o rep \o SubSeq(s, i + Len(pat), Len(s))

(* String.prototype.replace with a string pattern: the first occurrence only *)
ReplaceFirst(s, pat, rep) ==
    LET i == IndexOf(s, pat)
    IN IF i = 0
       THEN s
       ELSE SubSeq(s, 1, i - 1) \o rep \o SubSeq(s, i + Len(pat), Len(s))

(* String.prototype.split with a one-character separator *)
RECURSIVE Split(_, _)
Split(s, sep) ==
    LET i == IndexOf(s, <<sep>>)
    IN IF i = 0
       THEN <<s>>
       ELSE <<SubSeq(s, 1, i - 1)>> \o Split(SubSeq(s, i + 1, Len(s)), sep)

(* Array.prototype.join with a one-character separator *)
RECURSIVE Join(_, _)
Join(parts, sep) ==
    IF parts = <<>> THEN <<>>
    ELSE IF Len(parts) = 1 THEN parts[1]
    ELSE parts[1] \o <<sep>> \o Join(Tail(parts), sep)

(* path.split('/').slice(0, -1).join('/') *)
DirPart(p) ==
    LET parts == Split(p, "/")
    IN Join(SubSeq(parts, 1, Len(parts) - 1), "/")

-----------------------------------------------------------------------------
(* Printed or returned text: a fixed wording (lit), the text interpolated    *)
(* into it (chars) and the numbers interpolated into it (nums).              *)

T(lit) == [lit |-> lit, chars |-> <<>>, nums |-> <<>>]

TC(lit, chars) == [lit |-> lit, chars |-> chars, nums |-> <<>>]

TN(lit, nums) == [lit |-> lit, chars |-> <<>>, nums |-> nums]

(* the empty string, the only falsy string *)
EmptyText(t) == t.lit = "" /\ t.chars = <<>> /\ t.nums = <<>>

(* !x for an optional sequence of characters: undefined or "" *)
Falsy(x) == x = None \/ x[1] = <<>>

(* !x for an optional string kept as a TLA+ string *)
FalsyStr(x) == x = None \/ x[1] = ""

-----------------------------------------------------------------------------
(* The file system seen through fs.existsSync, readFileSync, writeFileSync   *)
(* and mkdirSync: the regular files with their contents, and the             *)
(* directories. Paths are taken as written, relative ones under cwd.         *)

cwd == <<"/", "w">>

rootPathToReplaceWithCwd == <<"/", "r", "e", "p", "o">>

Abs(p) == IF p # <<>> /\ p[1] = "/" THEN p ELSE cwd \o <<"/">> \o p

IsDir(fsys, p) == Abs(p) \in fsys.dirs \/ Abs(p) = <<"/">>

IsFile(fsys, p) == Abs(p) \in DOMAIN fsys.files

existsSync(fsys, p) == IsFile(fsys, p) \/ IsDir(fsys, p)

(* the directory a path lies in; "" stands for the root *)
ParentOf(p) == DirPart(Abs(p))

ParentExists(fsys, p) == ParentOf(p) = <<>> \/ IsDir(fsys, ParentOf(p))

(* a path and all the directories above it *)
RECURSIVE Ancestors(_)
Ancestors(p) ==
    IF p = <<>> \/ p = <<"/">> THEN {} ELSE {p} \cup Ancestors(DirPart(p))

(* fs.mkdirSync(d, {recursive: true}) throws when a file is in the way *)
MkdirFails(fsys, d) == \E a \in Ancestors(Abs(d)) : a \in DOMAIN fsys.files

mkdirSync(fsys, d) == [fsys EXCEPT !.dirs = @ \cup Ancestors(Abs(d))]

(* fs.writeFileSync(p, data) throws on a directory or a missing parent *)
WriteFails(fsys, p) == IsDir(fsys, p) \/ ~ParentExists(fsys, p)

writeFileSync(fsys, p, data) ==
    [fsys EXCEPT !.files =
        [q \in (DOMAIN @) \cup {Abs(p)} |-> IF q = Abs(p) THEN data ELSE @[q]]]

readFileSync(fsys, p) == fsys.files[Abs(p)]

-----------------------------------------------------------------------------
(* The seven tools of the Bash/Editor Agent. Each takes the tool input, the  *)
(* file system, the shell-environment snapshot and what the outside world    *)
(* answers (ext: the outcome of the shell command), and yields the           *)
(* ToolResult with the file system and the snapshot it leaves.               *)

ErrorResultWithPayload(t) == [error |-> Some(t), result |-> Some(t)]

ErrorResult(t) == [error |-> Some(t), result |-> None]

OkResult(t) == [error |-> None, result |-> Some(t)]

(* a return after the tool has called into fs (existsSync, readFileSync,     *)
(* mkdirSync, writeFileSync) or started the shell                            *)
Ret(res, fsys, env) == [res |-> res, fs |-> fsys, env |-> env, touched |-> TRUE]

RetAfterExists(res, fsys, env) ==
    [res |-> res, fs |-> fsys, env |-> env, touched |-> TRUE]

(* a return before any such call *)
RetNoFs(res, fsys, env) == [res |-> res, fs |-> fsys, env |-> env, touched |-> FALSE]

PathIsEmpty(resolvedPath) ==
    resolvedPath = None \/ resolvedPath[1] = <<>> \/ Trim(resolvedPath[1]) = <<>>

Resolve(p) ==
    IF p = None THEN None
    ELSE Some(ReplaceFirst(p[1], rootPathToReplaceWithCwd, cwd))

toolViewFile(toolInput, fsys, env, ext) ==
    LET resolvedPath == Resolve(toolInput.path)
    IN IF PathIsEmpty(resolvedPath)
       THEN RetNoFs(ErrorResult(T("Invalid file path provided: path is empty.")), fsys, env)
       ELSE IF ~existsSync(fsys, resolvedPath[1])
       THEN Ret(ErrorResult(TC("File does not exist", resolvedPath[1])), fsys, env)
       ELSE IF IsDir(fsys, resolvedPath[1])
       THEN Ret(ErrorResult(T("EISDIR: illegal operation on a directory, read")), fsys, env)
       ELSE Ret(OkResult(TC("", readFileSync(fsys, resolvedPath[1]))), fsys, env)

toolCreateFile(toolInput, fsys, env, ext) ==
    LET resolvedPath == Resolve(toolInput.path)
        dirname == DirPart(toolInput.path[1])
        made == mkdirSync(fsys, dirname)
        text == IF Falsy(toolInput.file_text) THEN <<>> ELSE toolInput.file_text[1]
    IN IF PathIsEmpty(resolvedPath)
       THEN RetNoFs(ErrorResult(T("Invalid file path provided: path is empty.")), fsys, env)
       ELSE IF dirname = <<>>
       THEN RetNoFs(ErrorResult(T("Invalid file path provided: directory part of the path is empty.")),
                fsys, env)
       ELSE IF MkdirFails(fsys, dirname)
       THEN Ret(ErrorResult(T("EEXIST: file already exists, mkdir")), fsys, env)
       ELSE IF WriteFails(made, resolvedPath[1])
       THEN Ret(ErrorResult(T("ENOENT: no such file or directory, open")), made, env)
       ELSE Ret(OkResult(TC("File created at", resolvedPath[1])),
                writeFileSync(made, resolvedPath[1], text), env)

toolStrReplace(toolInput, fsys, env, ext) ==
    LET resolvedPath == Resolve(toolInput.path)
        old_str == toolInput.old_str
        new_str == IF Falsy(toolInput.new_str) THEN <<>> ELSE toolInput.new_str[1]
        content == readFileSync(fsys, resolvedPath[1])
    IN IF PathIsEmpty(resolvedPath)
       THEN RetNoFs(ErrorResult(T("Invalid file path provided: path is empty.")), fsys, env)
       ELSE IF Falsy(old_str)
       THEN RetNoFs(ErrorResult(T("No text to replace specified: old_str is empty.")), fsys, env)
       ELSE IF ~existsSync(fsys, resolvedPath[1])
       THEN Ret(ErrorResult(TC("File does not exist", resolvedPath[1])), fsys, env)
       ELSE IF IsDir(fsys, resolvedPath[1])
       THEN Ret(ErrorResult(T("EISDIR: illegal operation on a directory, read")), fsys, env)
       ELSE IF ~Includes(content, old_str[1])
       THEN Ret(ErrorResult(TC("not found in", old_str[1] \o <<" ">> \o resolvedPath[1])),
                fsys, env)
       ELSE Ret(OkResult(T("Text replaced successfully")),
                writeFileSync(fsys, resolvedPath[1],
                              ReplaceFirst(content, old_str[1], new_str)), env)

SpliceReplacing(lines, i, x) ==
    SubSeq(lines, 1, i) \o <<x>> \o SubSeq(lines, i + 2, Len(lines))

(* Array.prototype.splice(i, 0, x) *)
Splice(lines, i, x) ==
    SubSeq(lines, 1, i) \o <<x>> \o SubSeq(lines, i + 1, Len(lines))

toolInsertLine(toolInput, fsys, env, ext) ==
    LET resolvedPath == Resolve(toolInput.path)
        insert_line == toolInput.insert_line
        new_str == toolInput.new_str
        lines == Split(readFileSync(fsys, resolvedPath[1]), "\n")
    IN IF PathIsEmpty(resolvedPath)
       THEN RetNoFs(ErrorResult(T("Invalid file path provided: path is empty.")), fsys, env)
       ELSE IF insert_line = None
       THEN RetNoFs(ErrorResult(T("No line number specified: insert_line is missing.")), fsys, env)
       ELSE IF Falsy(new_str)
       THEN RetNoFs(ErrorResult(T("No text to insert specified: new_str is empty.")), fsys, env)
       ELSE IF ~existsSync(fsys, resolvedPath[1])
       THEN Ret(ErrorResult(TC("File does not exist", resolvedPath[1])), fsys, env)
       ELSE IF IsDir(fsys, resolvedPath[1])
       THEN Ret(ErrorResult(T("EISDIR: illegal operation on a directory, read")), fsys, env)
       ELSE IF insert_line[1] < 0 \/ insert_line[1] > Len(lines)
       THEN Ret(ErrorResult(TN("Insert line number out of range (0-lines.length).",
                               <<insert_line[1], Len(lines)>>)), fsys, env)
       ELSE Ret(OkResult(T("Line inserted successfully")),
                writeFileSync(fsys, resolvedPath[1],
                              Join(Splice(lines, insert_line[1], new_str[1]), "\n")), env)

(* What execSync does is the command's business: ext.ok says whether it      *)
(* exited with status 0, ext.stdout and ext.stderr what it wrote, ext.fs     *)
(* the file system it leaves.                                                *)
toolExecuteBash(toolInput, fsys, env, ext) ==
    LET resolvedCommand ==
            IF toolInput.command = None THEN None
            ELSE Some(ReplaceFirst(toolInput.command[1], rootPathToReplaceWithCwd, cwd))
    IN IF PathIsEmpty(resolvedCommand)
       THEN RetNoFs(ErrorResult(T("No command specified: command is empty.")), fsys, env)
       ELSE IF ext.ok
       THEN Ret(OkResult(TC("", Trim(ext.stdout))), ext.fs, env)
       ELSE IF Trim(ext.stderr) # <<>>
       THEN Ret(ErrorResult(TC("", Trim(ext.stderr))), ext.fs, env)
       ELSE Ret(ErrorResult(T("Command execution failed with non-zero exit code.")),
                ext.fs, env)

(* process.env itself never changes while the agent runs; a snapshot is a    *)
(* copy of it, and copy counts the copies taken so far.                      *)
FreshEnv(env) == [vars |-> "process.env", copy |-> env.copy + 1]

ExecSyncCallEnvAtLoad(name, toolInput, env) ==
    LET resolvedCommand ==
            IF toolInput.command = None THEN None
            ELSE Some(ReplaceFirst(toolInput.command[1], rootPathToReplaceWithCwd, cwd))
    IN IF name = "execute_bash" /\ ~PathIsEmpty(resolvedCommand)
       THEN Some([command |-> resolvedCommand[1],
                  env |-> [vars |-> "process.env", copy |-> 0]])
       ELSE None

(* the call of execSync a tool call makes: the command and the env option;   *)
(* None when the tool call does not reach execSync                           *)
ExecSyncCall(name, toolInput, env) ==
    LET resolvedCommand ==
            IF toolInput.command = None THEN None
            ELSE Some(ReplaceFirst(toolInput.command[1], rootPathToReplaceWithCwd, cwd))
    IN IF name = "execute_bash" /\ ~PathIsEmpty(resolvedCommand)
       THEN Some([command |-> resolvedCommand[1], env |-> env])
       ELSE None

toolRestartBash(toolInput, fsys, env, ext) ==
    IF FalsyStr(toolInput.reasoning)
    THEN RetNoFs(ErrorResult(T("No reasoning provided for restarting bash session.")), fsys, env)
    ELSE RetNoFs(OkResult(T("Bash session restarted.")), fsys, FreshEnv(env))

toolCompleteTask(toolInput, fsys, env, ext) ==
    IF FalsyStr(toolInput.reasoning)
    THEN RetNoFs(ErrorResult(T("No reasoning provided for task completion.")), fsys, env)
    ELSE RetNoFs(OkResult(T("Task completed")), fsys, env)

(* the names runAgent's toolFunctions table maps *)
ToolNames == {"view_file", "create_file", "str_replace", "insert_line",
              "execute_bash", "restart_bash", "complete_task"}

(* toolFunctions is an object literal, so toolFunctions[name] also finds     *)
(* what every object inherits from Object.prototype; these names stand for   *)
(* the inherited ones                                                        *)
InheritedNames == {"toString", "constructor", "valueOf", "hasOwnProperty", "__proto__"}

(* Called without a receiver, toString and constructor return a value that   *)
(* has neither an error nor a result field; valueOf and hasOwnProperty       *)
(* throw a TypeError, and __proto__ is an object that cannot be called.      *)
InheritedReturns == {"toString", "constructor"}

(* if (func): toolFunctions[tool.name] is truthy *)
Found(name) == name \in ToolNames \cup InheritedNames

(* func(tool.input) throws *)
CallThrows(name) == name \in InheritedNames \ InheritedReturns

toolFunctions(name, toolInput, fsys, env, ext) ==
    CASE name = "view_file" -> toolViewFile(toolInput, fsys, env, ext)
      [] name = "create_file" -> toolCreateFile(toolInput, fsys, env, ext)
      [] name = "str_replace" -> toolStrReplace(toolInput, fsys, env, ext)
      [] name = "insert_line" -> toolInsertLine(toolInput, fsys, env, ext)
      [] name = "execute_bash" -> toolExecuteBash(toolInput, fsys, env, ext)
      [] name = "restart_bash" -> toolRestartBash(toolInput, fsys, env, ext)
      [] name = "complete_task" -> toolCompleteTask(toolInput, fsys, env, ext)
      [] name \in InheritedReturns ->
            RetNoFs([error |-> None, result |-> None], fsys, env)

(* output.error || output.result || "" *)
ResultText(output) ==
    IF output.error # None /\ ~EmptyText(output.error[1]) THEN output.error[1]
    ELSE IF output.result # None /\ ~EmptyText(output.result[1]) THEN output.result[1]
    ELSE T("")

-----------------------------------------------------------------------------
(* Content blocks, messages and requests.                                    *)

(* the input object of an agent tool_use; a field the model left out is None *)
AgentInput(reasoning, path, file_text, old_str, new_str, insert_line, command) ==
    [reasoning |-> reasoning, path |-> path, file_text |-> file_text,
     old_str |-> old_str, new_str |-> new_str, insert_line |-> insert_line,
     command |-> command]

NoInput == AgentInput(None, None, None, None, None, None, None)

TextBlock(t) ==
    [type |-> "text", id |-> None, name |-> "", input |-> NoInput, text |-> t]

ThinkingBlock(t) ==
    [type |-> "thinking", id |-> None, name |-> "", input |-> NoInput, text |-> t]

ToolUseBlock(name, input) ==
    [type |-> "tool_use", id |-> None, name |-> name, input |-> input, text |-> ""]

ToolResultBlock(id, content) ==
    [type |-> "tool_result", tool_use_id |-> id, content |-> content]

Message(role, content) == [role |-> role, content |-> content]

(* client.messages.create({max_tokens, thinking, messages, tools}) called at  *)
(* the call site by; thinking is None when the request does not enable it,   *)
(* else Some(budget_tokens)                                                  *)
Request(by, max_tokens, thinking, msgs, tools) ==
    [by |-> by, max_tokens |-> max_tokens, thinking |-> thinking,
     messages |-> msgs, tools |-> tools]

(* Array.prototype.filter *)
RECURSIVE Filter(_, _)
Filter(blocks, type) ==
    IF blocks = <<>> THEN <<>>
    ELSE IF Head(blocks).type = type
         THEN <<Head(blocks)>> \o Filter(Tail(blocks), type)
         ELSE Filter(Tail(blocks), type)

(* The API gives every tool_use of a reply an identifier of its own: here    *)
(* the number of the request it answers and the position of the block.       *)
WithIds(blocks, n) ==
    [j \in DOMAIN blocks |->
        IF blocks[j].type = "tool_use"
        THEN [blocks[j] EXCEPT !.id = <<n, j>>]
        ELSE blocks[j]]

Printed(lit) == \E i \in DOMAIN out : out[i].lit = lit

-----------------------------------------------------------------------------
(* The Bash/Editor Agent: what the model may reply and what the shell may do *)

FileA == <<"/", "r", "e", "p", "o", "/", "a">>

FileB == <<"/", "r", "e", "p", "o", "/", "d", "/", "b">>

UseView == ToolUseBlock("view_file",
    AgentInput(Some("r"), Some(FileA), None, None, None, None, None))

UseViewNoPath == ToolUseBlock("view_file",
    AgentInput(Some("r"), None, None, None, None, None, None))

UseCreate == ToolUseBlock("create_file",
    AgentInput(Some("r"), Some(FileB), Some(<<"z">>), None, None, None, None))

UseReplace == ToolUseBlock("str_replace",
    AgentInput(Some("r"), Some(FileA), None, Some(<<"x">>), Some(<<"q">>), None, None))

UseInsert == ToolUseBlock("insert_line",
    AgentInput(Some("r"), Some(FileA), None, None, Some(<<"n">>), Some(1), None))

UseBash == ToolUseBlock("execute_bash",
    AgentInput(Some("r"), None, None, None, None, None, Some(<<"l", "s">>)))

UseRestart == ToolUseBlock("restart_bash",
    AgentInput(Some("r"), None, None, None, None, None, None))

UseRestartNoReasoning == ToolUseBlock("restart_bash", NoInput)

UseComplete == ToolUseBlock("complete_task",
    AgentInput(Some("done"), None, None, None, None, None, None))

UseCompleteNoReasoning == ToolUseBlock("complete_task", NoInput)

UseUnknown == ToolUseBlock("web_search", NoInput)

UseInherited == ToolUseBlock("toString", NoInput)

UseUncallable == ToolUseBlock("__proto__", NoInput)

(* the replies the model may give to a request of the agent *)
Replies ==
    { <<ThinkingBlock("plan"), TextBlock("answer")>>,
      <<ThinkingBlock("plan"), UseView>>,
      <<UseViewNoPath>>,
      <<UseCreate>>,
      <<UseReplace, UseInsert>>,
      <<UseBash, UseRestart>>,
      <<UseRestartNoReasoning, UseBash>>,
      <<UseComplete, UseView>>,
      <<TextBlock("closing"), UseReplace, UseComplete>>,
      <<UseCompleteNoReasoning>>,
      <<UseUnknown>>,
      <<UseCreate, UseUnknown>>,
      <<UseInherited, UseView>>,
      <<UseUncallable, UseView>> }

(* what running a shell command may come to: success with output, success    *)
(* removing a file, failure with and without a message on stderr             *)
BashOutcomes(fsys) ==
    { [ok |-> TRUE, stdout |-> <<"o", "\n">>, stderr |-> <<>>, fs |-> fsys],
      [ok |-> TRUE, stdout |-> <<>>, stderr |-> <<>>,
       fs |-> [fsys EXCEPT !.files =
                  [q \in (DOMAIN @) \ {<<"/", "w", "/", "a">>} |-> @[q]]]],
      [ok |-> FALSE, stdout |-> <<>>, stderr |-> <<"e", "\n">>, fs |-> fsys],
      [ok |-> FALSE, stdout |-> <<>>, stderr |-> <<" ">>, fs |-> fsys] }

(* the only tool whose outcome is not fixed by its input and the file system *)
Outcomes(name, fsys) ==
    IF name = "execute_bash" THEN BashOutcomes(fsys)
    ELSE {[ok |-> TRUE, stdout |-> <<>>, stderr |-> <<>>, fs |-> fsys]}

-----------------------------------------------------------------------------
(* Launching a program: the environment and the command line are chosen,     *)
(* nothing has run yet.                                                      *)

Args(prompts, maxTokenses, budgets, computes, clients) ==
    [prompt : prompts, maxTokens : maxTokenses, thinkingBudget : budgets,
     compute : computes, client : clients]

(* --prompt left out, given as "", given *)
Prompts == {None, Some(""), Some("fix it")}

(* requests to the agent: the same, and one that speaks of the shell *)
AgentPrompts == Prompts \cup {Some("echo $$ >> $&.log")}

InitFs ==
    [files |-> (<<"/", "w", "/", "a">> :> <<"x", "\n", "y">>),
     dirs |-> {<<"/", "w">>}]

Launch(c, args) ==
    /\ comp = c
    /\ apiKey \in BOOLEAN
    /\ argv \in args
    /\ pc = "start"
    /\ exitCode = NoExit
    /\ out = <<>>
    /\ sent = <<>>
    /\ failures = {}
    /\ trace = <<>>
    /\ thinkingBudget = 0
    /\ maxTokens = 0
    /\ messages = <<>>
    /\ computeIterations = 0
    /\ isTaskComplete = FALSE
    /\ maxComputeLoops = 0
    /\ toolCalls = <<>>
    /\ toolIdx = 0
    /\ fs = InitFs
    /\ currentBashEnv = [vars |-> "process.env", copy |-> 0]
    /\ lastRun = None
    /\ response = <<>>
    /\ continuation = <<>>
    /\ weatherCalls = <<>>
    /\ weatherData = None
    /\ clothingRec = None
    /\ thinkingContent = <<>>
    /\ responseContent = <<>>
    /\ currentBlockType = None
    /\ thinkingTokens = 0
    /\ responseTokens = 0
    /\ eventCount = 0
    /\ events = <<>>

Exit(code) == exitCode' = code /\ pc' = "exited"

(* the 1024 of every "thinkingBudget < 1024" *)
MinThinkingBudget == 1024

ClampBudgetNot(requested) == requested

(* if (thinkingBudget < 1024) thinkingBudget = 1024 *)
ClampBudget(requested) ==
    IF requested < MinThinkingBudget THEN MinThinkingBudget ELSE requested

ClampWarning(requested) ==
    IF requested < MinThinkingBudget
    THEN <<T("Warning: Minimum thinking budget is 1024 tokens. Setting to 1024.")>>
    ELSE <<>>

-----------------------------------------------------------------------------
(* The Bash/Editor Agent: module initialisation, parseArgs, runAgent, main   *)

notAgentVars == <<trace, toolDemoVars, streamVars>>

(* module level: the credential is checked before anything else runs *)
AgentModuleInit ==
    /\ comp = "agent" /\ pc = "start"
    /\ IF ~apiKey
       THEN /\ out' = Append(out, T("Error: ANTHROPIC_API_KEY environment variable not set"))
            /\ Exit(1)
       ELSE /\ pc' = "parseArgs"
            /\ UNCHANGED <<out, exitCode>>
    /\ UNCHANGED <<cliVars, sent, failures, budgetVars, agentVars, response,
                   notAgentVars>>

(* parseArgs: only the prompt is required; "" counts as missing.  The        *)
(* numbers are those parseInt understood; a value it cannot read (NaN) is    *)
(* not among the command lines of the model.                                 *)
AgentParseArgs ==
    /\ comp = "agent" /\ pc = "parseArgs"
    /\ IF FalsyStr(argv.prompt)
       THEN /\ out' = Append(out, T("Error: --prompt argument is required"))
            /\ Exit(1)
            /\ UNCHANGED <<thinkingBudget, maxTokens, maxComputeLoops>>
       ELSE /\ pc' = "runAgent"
            /\ thinkingBudget' = argv.thinkingBudget
            /\ maxTokens' = argv.maxTokens
            /\ maxComputeLoops' = argv.compute
            /\ UNCHANGED <<out, exitCode>>
    /\ UNCHANGED <<cliVars, sent, failures, response, messages,
                   computeIterations, isTaskComplete, toolCalls, toolIdx, fs,
                   currentBashEnv, lastRun, notAgentVars>>

(* the agent prompt template, its tool descriptions left out *)
AGENT_PROMPT == "<purpose/><user-request>{{user_request}}</user-request>"

(* GetSubstitution of String.prototype.replace for a string pattern:         *)
(* "$$" gives "$", "$&" the matched text, "$'" the text after the match;     *)
(* a "$" before anything else stays. The requests considered hold no grave   *)
(* accent, so the pattern for the text before the match never applies.       *)
RECURSIVE GetSubstitution(_, _, _, _)
GetSubstitution(matched, after, replacement, i) ==
    IF i > Len(replacement) THEN ""
    ELSE IF SubSeq(replacement, i, i) = "$" /\ i < Len(replacement)
              /\ SubSeq(replacement, i + 1, i + 1) \in {"$", "&", "'"}
    THEN (CASE SubSeq(replacement, i + 1, i + 1) = "$" -> "$"
            [] SubSeq(replacement, i + 1, i + 1) = "&" -> matched
            [] OTHER -> after)
         \o GetSubstitution(matched, after, replacement, i + 2)
    ELSE SubSeq(replacement, i, i)
         \o GetSubstitution(matched, after, replacement, i + 1)

(* str.replace(pattern, replacement) for strings: the first occurrence of    *)
(* pattern gives way to the expansion of replacement                         *)
StringReplace(str, pattern, replacement) ==
    LET hits == {i \in 1..Len(str) :
                    /\ i + Len(pattern) - 1 <= Len(str)
                    /\ SubSeq(str, i, i + Len(pattern) - 1) = pattern}
    IN IF hits = {} THEN str
       ELSE LET pos == CHOOSE i \in hits : \A j \in hits : i <= j
                after == SubSeq(str, pos + Len(pattern), Len(str))
            IN SubSeq(str, 1, pos - 1)
               \o GetSubstitution(pattern, after, replacement, 1)
               \o after

(* runAgent up to the loop: the budget clamp and the initial conversation *)
RunAgentBegin ==
    /\ comp = "agent" /\ pc = "runAgent"
    /\ thinkingBudget' = ClampBudget(thinkingBudget)
    /\ out' = out \o ClampWarning(thinkingBudget)
    /\ messages' = <<Message("user", <<TextBlock(
                        StringReplace(AGENT_PROMPT, "{{user_request}}", argv.prompt[1]))>>)>>
    /\ computeIterations' = 0
    /\ isTaskComplete' = FALSE
    /\ pc' = "loop"
    /\ UNCHANGED <<cliVars, exitCode, sent, failures, maxTokens, response,
                   maxComputeLoops, toolCalls, toolIdx, fs, currentBashEnv,
                   lastRun, notAgentVars>>

LoopConditionOffByOne == computeIterations <= maxComputeLoops /\ ~isTaskComplete

(* the condition of the while loop *)
LoopCondition == computeIterations < maxComputeLoops /\ ~isTaskComplete

(* the loop test and, when it passes, the head of the body: the counter is   *)
(* incremented and the request goes out                                      *)
AgentLoopTest ==
    /\ comp = "agent" /\ pc = "loop"
    /\ IF LoopCondition
       THEN /\ computeIterations' = computeIterations + 1
            /\ out' = Append(out, TN("Agent Loop", <<computeIterations + 1, maxComputeLoops>>))
            /\ sent' = Append(sent, Request("runAgent", maxTokens, Some(thinkingBudget),
                                            messages, ToolNames))
            /\ pc' = "await"
       ELSE /\ pc' = "after"
            /\ UNCHANGED <<computeIterations, out, sent>>
    /\ UNCHANGED <<cliVars, exitCode, failures, budgetVars, response, messages,
                   isTaskComplete, maxComputeLoops, toolCalls, toolIdx, fs,
                   currentBashEnv, lastRun, notAgentVars>>

ThinkingPrint(content) ==
    IF Filter(content, "thinking") # <<>>
    THEN <<T("Claude's Thinking Process:")>>
    ELSE <<>>

(* the reply arrives: thinking is printed, the tool calls are extracted and  *)
(* the assistant turn is appended; without tool calls the loop is left       *)
AgentResponse ==
    /\ comp = "agent" /\ pc = "await"
    /\ \E r \in Replies :
         LET content == WithIds(r, computeIterations)
             calls == Filter(content, "tool_use")
         IN /\ response' = content
            /\ toolCalls' = calls
            /\ messages' = Append(messages, Message("assistant", content))
            /\ IF calls # <<>>
               THEN /\ out' = out \o <<T("API Response:")>> \o ThinkingPrint(content)
                    /\ toolIdx' = 1
                    /\ pc' = "tools"
               ELSE /\ out' = out \o <<T("API Response:")>> \o ThinkingPrint(content)
                               \o <<T("No tool calls in response. Exiting agent loop.")>>
                    /\ toolIdx' = 0
                    /\ pc' = "after"
    /\ UNCHANGED <<cliVars, exitCode, sent, failures, budgetVars,
                   computeIterations, isTaskComplete, maxComputeLoops, fs,
                   currentBashEnv, lastRun, notAgentVars>>

AgentApiErrorContinues ==
    /\ comp = "agent" /\ pc = "await"
    /\ failures' = failures \cup {"runAgent"}
    /\ out' = Append(out, T("Error in API call:"))
    /\ pc' = "loop"
    /\ UNCHANGED <<cliVars, exitCode, sent, budgetVars, agentVars, response,
                   notAgentVars>>

(* client.messages.create rejects: the catch inside the loop logs and breaks *)
AgentApiError ==
    /\ comp = "agent" /\ pc = "await"
    /\ failures' = failures \cup {"runAgent"}
    /\ out' = Append(out, T("Error in API call:"))
    /\ pc' = "after"
    /\ UNCHANGED <<cliVars, exitCode, sent, budgetVars, agentVars, response,
                   notAgentVars>>

(* what lastRun keeps of a tool call *)
Run(tool, fsys, env, ran) ==
    [tool |-> tool, before |-> fsys, output |-> ran.res, touched |-> ran.touched,
     envBefore |-> env, exec |-> ExecSyncCall(tool.name, tool.input, env)]

ForOfNextLeaves(idx, calls) == "loop"

(* for (const tool of toolCalls): where control goes after the round for     *)
(* the call at idx                                                           *)
ForOfNext(idx, calls) == IF idx = Len(calls) THEN "loop" ELSE "tools"

(* one round of the for loop over the tool calls; a name that               *)
(* toolFunctions[name] does not find throws, as does a call that fails, and  *)
(* the catch inside the while loop logs and breaks                           *)
AgentToolStep ==
    /\ comp = "agent" /\ pc = "tools"
    /\ LET tool == toolCalls[toolIdx]
       IN IF Found(tool.name) /\ ~CallThrows(tool.name)
          THEN \E ext \in Outcomes(tool.name, fs) :
                 LET ran == toolFunctions(tool.name, tool.input, fs, currentBashEnv, ext)
                     resultText == ResultText(ran.res)
                 IN /\ fs' = ran.fs
                    /\ lastRun' = Some(Run(tool, fs, currentBashEnv, ran))
                    /\ currentBashEnv' = ran.env
                    /\ messages' = Append(messages,
                           Message("user", <<ToolResultBlock(tool.id, resultText)>>))
                    /\ IF tool.name = "complete_task"
                       THEN /\ out' = out \o <<T("Tool Call:"), T("Tool Result:"),
                                               T("Task completed. Exiting agent loop.")>>
                            /\ isTaskComplete' = TRUE
                            /\ toolIdx' = toolIdx
                            /\ pc' = "loop"
                       ELSE /\ out' = out \o <<T("Tool Call:"), T("Tool Result:")>>
                            /\ isTaskComplete' = isTaskComplete
                            /\ toolIdx' = toolIdx + 1
                            /\ pc' = ForOfNext(toolIdx, toolCalls)
          ELSE /\ out' = out \o <<T("Tool Call:"), T("Error in API call:")>>
               /\ pc' = "after"
               /\ UNCHANGED <<fs, currentBashEnv, lastRun, messages, isTaskComplete,
                              toolIdx>>
    /\ UNCHANGED <<cliVars, exitCode, sent, failures, budgetVars, toolCalls,
                   response, computeIterations, maxComputeLoops, notAgentVars>>

(* after the loop: the limit report, the token summary; runAgent and main    *)
(* return and the process ends                                               *)
AgentAfterLoop ==
    /\ comp = "agent" /\ pc = "after"
    /\ IF computeIterations >= maxComputeLoops /\ ~isTaskComplete
       THEN out' = out \o <<T("Reached compute limit without completing task."),
                            T("Token Usage Summary:")>>
       ELSE out' = Append(out, T("Token Usage Summary:"))
    /\ Exit(0)
    /\ UNCHANGED <<cliVars, sent, failures, budgetVars, agentVars, response,
                   notAgentVars>>

-----------------------------------------------------------------------------
(* The agent tools on every input: the run starts where the first reply has  *)
(* arrived with one tool call, and the for loop executes it.                 *)

(* absent, empty, blank, an existing file, a file in a missing directory, a  *)
(* missing file, names without a directory part, a directory                 *)
PathChoices ==
    { None, Some(<<>>), Some(<<" ">>), Some(FileA), Some(FileB),
      Some(<<"/", "r", "e", "p", "o", "/", "c">>), Some(<<"a">>),
      Some(<<"d", "/", "b">>), Some(<<"/", "r", "e", "p", "o">>),
      Some(<<"/", "r", "e", "p", "o", "/", "r", "e", "p", "o">>),
      Some(<<"d", "/", "r", "e", "p", "o", "/", "r", "e", "p", "o">>) }

(* absent, empty, one line, two lines *)
TextChoices == { None, Some(<<>>), Some(<<"n">>), Some(<<"p", "\n", "q">>) }

(* absent, empty, occurring in FileA, occurring nowhere *)
OldStrChoices == { None, Some(<<>>), Some(<<"x">>), Some(<<"k">>) }

MaxLine == 3

LineChoices == { None } \cup { Some(i) : i \in -1..MaxLine }

ReasoningChoices == { None, Some(""), Some("r") }

CommandChoices ==
    { None, Some(<<>>), Some(<<"l", "s">>),
      Some(<<"l", "s", " ", "/", "r", "e", "p", "o", " ", "/", "r", "e", "p", "o">>) }

ToolUses ==
    { ToolUseBlock("view_file", AgentInput(Some("r"), p, None, None, None, None, None)) :
        p \in PathChoices }
    \cup { ToolUseBlock("create_file", AgentInput(Some("r"), p, t, None, None, None, None)) :
             p \in PathChoices, t \in TextChoices }
    \cup { ToolUseBlock("str_replace", AgentInput(Some("r"), p, None, o, n, None, None)) :
             p \in PathChoices, o \in OldStrChoices, n \in TextChoices }
    \cup { ToolUseBlock("insert_line", AgentInput(Some("r"), p, None, None, n, i, None)) :
             p \in PathChoices, n \in TextChoices, i \in LineChoices }
    \cup { ToolUseBlock("execute_bash", AgentInput(Some("r"), None, None, None, None, None, c)) :
             c \in CommandChoices }
    \cup { ToolUseBlock(name, AgentInput(r, None, None, None, None, None, None)) :
             name \in {"restart_bash", "complete_task"}, r \in ReasoningChoices }

(* the working directory as the other runs find it; with a file that ends in *)
(* a newline and a file where a directory is asked for; with the directories *)
(* already there                                                             *)
FileSystems ==
    { InitFs,
      [files |-> (<<"/", "w", "/", "a">> :> <<"x", "\n">>)
                 @@ (<<"/", "w", "/", "d">> :> <<"z">>),
       dirs |-> {<<"/", "w">>}],
      [files |-> (<<"/", "w", "/", "a">> :> <<"x", "\n", "y">>)
                 @@ (<<"/", "w", "/", "d", "/", "b">> :> <<"o">>),
       dirs |-> {<<"/", "w">>, <<"/", "w", "/", "d">>, <<"/", "r", "e", "p", "o">>}] }

InitTools ==
    \E use \in ToolUses :
        LET content == WithIds(<<use>>, 1)
            prompt == Message("user", <<TextBlock(
                          StringReplace(AGENT_PROMPT, "{{user_request}}", "fix it"))>>)
        IN /\ comp = "agent"
           /\ apiKey = TRUE
           /\ argv = [prompt |-> Some("fix it"), maxTokens |-> 4000,
                      thinkingBudget |-> 1024, compute |-> 1, client |-> FALSE]
           /\ pc = "tools"
           /\ exitCode = NoExit
           /\ out = <<TN("Agent Loop", <<1, 1>>), T("API Response:")>>
           /\ sent = <<Request("runAgent", 4000, Some(1024), <<prompt>>, ToolNames)>>
           /\ failures = {}
           /\ trace = <<>>
           /\ thinkingBudget = 1024
           /\ maxTokens = 4000
           /\ messages = <<prompt, Message("assistant", content)>>
           /\ computeIterations = 1
           /\ isTaskComplete = FALSE
           /\ maxComputeLoops = 1
           /\ toolCalls = content
           /\ toolIdx = 1
           /\ fs \in FileSystems
           /\ currentBashEnv = [vars |-> "process.env", copy |-> 0]
           /\ lastRun = None
           /\ response = content
           /\ continuation = <<>>
           /\ weatherCalls = <<>>
           /\ weatherData = None
           /\ clothingRec = None
           /\ thinkingContent = <<>>
           /\ responseContent = <<>>
           /\ currentBlockType = None
           /\ thinkingTokens = 0
           /\ responseTokens = 0
           /\ eventCount = 0
           /\ events = <<>>

SpecTools == InitTools /\ [][AgentToolStep]_vars
-----------------------------------------------------------------------------
(* What the single-request CLIs share                                        *)

estimateTokensRoundedDown(text) == Len(text) \div 4

(* Math.ceil(text.length / 4) *)
estimateTokens(text) == (Len(text) + 3) \div 4

MissingPrompt == <<T("error: required option '--prompt <prompt>' not specified")>>

MissingKey == <<T("Error: ANTHROPIC_API_KEY environment variable not set")>>

(* the catch around the body of main: the message is printed in red *)
CaughtError == <<T("Error:")>>

TokenTable(counts) == TN("Token Usage Summary", counts)

CannotStartKeyUnchecked == argv.prompt = None

(* program.parse exits with status 1 when --prompt is left out; then the     *)
(* credential is looked up                                                   *)
CannotStart == argv.prompt = None \/ ~apiKey

RefuseToStart ==
    /\ out' = out \o (IF argv.prompt = None THEN MissingPrompt ELSE MissingKey)
    /\ Exit(1)

-----------------------------------------------------------------------------
(* Simple Prompt CLI                                                         *)

notSimpleVars == <<trace, budgetVars, agentVars, toolDemoVars, streamVars>>

(* the replies to a request without tools: a text block, or no block at all *)
TextReplies ==
    { <<TextBlock("Hello there")>>, <<TextBlock("")>>, <<TextBlock("abcd")>>,
      <<TextBlock("abcde")>>, <<>> }

(* main, up to the request *)
SimplePromptMain ==
    /\ comp = "simple_prompt" /\ pc = "start"
    /\ IF CannotStart
       THEN RefuseToStart /\ UNCHANGED sent
       ELSE /\ out' = Append(out, T("Request to Claude 3.7 Sonnet"))
            /\ sent' = Append(sent, Request("main", argv.maxTokens, None,
                   <<Message("user", <<TextBlock(argv.prompt[1])>>)>>, {}))
            /\ pc' = "await"
            /\ UNCHANGED exitCode
    /\ UNCHANGED <<cliVars, failures, response, notSimpleVars>>

(* the reply arrives; response.content[0].text throws on an empty content *)
SimplePromptResponse ==
    /\ comp = "simple_prompt" /\ pc = "await"
    /\ \E r \in TextReplies :
         /\ response' = r
         /\ IF r = <<>>
            THEN /\ out' = out \o CaughtError
                 /\ Exit(1)
            ELSE /\ out' = out \o <<T("Claude 3.7 Sonnet Response"),
                                    TokenTable(<<estimateTokens(argv.prompt[1]),
                                                 estimateTokens(r[1].text),
                                                 estimateTokens(argv.prompt[1])
                                                   + estimateTokens(r[1].text)>>)>>
                 /\ Exit(0)
    /\ UNCHANGED <<cliVars, sent, failures, notSimpleVars>>

(* the request is rejected: the catch prints the message and exits *)
SimplePromptApiError ==
    /\ comp = "simple_prompt" /\ pc = "await"
    /\ failures' = failures \cup {"main"}
    /\ out' = out \o CaughtError
    /\ Exit(1)
    /\ UNCHANGED <<cliVars, sent, response, notSimpleVars>>

-----------------------------------------------------------------------------
(* Structured Output CLI: JSON values                                        *)

JUndefined == [t |-> "undefined", v |-> <<>>]

JNull == [t |-> "null", v |-> <<>>]

JStr(s) == [t |-> "string", v |-> s]

JNum(n) == [t |-> "number", v |-> n]

JArr(items) == [t |-> "array", v |-> items]

JObj(fields) == [t |-> "object", v |-> fields]

(* typeof x === 'object' *)
TypeofObject(x) == x.t \in {"null", "array", "object"}

(* !x *)
JsFalsy(x) ==
    \/ x.t \in {"null", "undefined"}
    \/ (x.t = "string" /\ x.v = "")
    \/ (x.t = "number" /\ x.v = 0)

(* k in x, for a name k that no array has *)
In(k, x) == x.t = "object" /\ k \in DOMAIN x.v

(* x.k *)
Get(x, k) == IF In(k, x) THEN x.v[k] ELSE JUndefined

(* x === s for a string s *)
StrictEq(x, s) == x.t = "string" /\ x.v = s

IsArray(x) == x.t = "array"

Item(team, task) == JObj("team" :> team @@ "task" :> task)

Feedback(sentiment, key_issues, action_items) ==
    JObj("sentiment" :> sentiment @@ "key_issues" :> key_issues
         @@ "action_items" :> action_items)

(* JSON.parse on the texts the model may answer with *)
JsonTable ==
    "{\"sentiment\":\"negative\",\"key_issues\":[\"slow\"],\"action_items\":[{\"team\":\"eng\",\"task\":\"fix\"}]}"
        :> Feedback(JStr("negative"), JArr(<<JStr("slow")>>),
                    JArr(<<Item(JStr("eng"), JStr("fix"))>>))
    @@ "{\"sentiment\":\"positive\",\"key_issues\":[],\"action_items\":[]}"
        :> Feedback(JStr("positive"), JArr(<<>>), JArr(<<>>))
    @@ "{\"sentiment\":\"neutral\",\"key_issues\":[],\"action_items\":[{\"team\":null,\"task\":\"\",\"due\":1}]}"
        :> Feedback(JStr("neutral"), JArr(<<>>),
                    JArr(<<JObj("team" :> JNull @@ "task" :> JStr("") @@ "due" :> JNum(1))>>))
    @@ "{\"sentiment\":\"mixed\",\"key_issues\":[],\"action_items\":[]}"
        :> Feedback(JStr("mixed"), JArr(<<>>), JArr(<<>>))
    @@ "{\"sentiment\":\"Positive\",\"key_issues\":[],\"action_items\":[]}"
        :> Feedback(JStr("Positive"), JArr(<<>>), JArr(<<>>))
    @@ "{\"sentiment\":1,\"key_issues\":[],\"action_items\":[]}"
        :> Feedback(JNum(1), JArr(<<>>), JArr(<<>>))
    @@ "{\"key_issues\":[],\"action_items\":[]}"
        :> JObj("key_issues" :> JArr(<<>>) @@ "action_items" :> JArr(<<>>))
    @@ "{\"sentiment\":\"positive\",\"action_items\":[]}"
        :> JObj("sentiment" :> JStr("positive") @@ "action_items" :> JArr(<<>>))
    @@ "{\"sentiment\":\"positive\",\"key_issues\":[]}"
        :> JObj("sentiment" :> JStr("positive") @@ "key_issues" :> JArr(<<>>))
    @@ "{\"sentiment\":\"positive\",\"key_issues\":\"slow\",\"action_items\":[]}"
        :> Feedback(JStr("positive"), JStr("slow"), JArr(<<>>))
    @@ "{\"sentiment\":\"positive\",\"key_issues\":[],\"action_items\":{\"team\":\"eng\",\"task\":\"fix\"}}"
        :> Feedback(JStr("positive"), JArr(<<>>), Item(JStr("eng"), JStr("fix")))
    @@ "{\"sentiment\":\"positive\",\"key_issues\":[],\"action_items\":[{\"team\":\"eng\"}]}"
        :> Feedback(JStr("positive"), JArr(<<>>), JArr(<<JObj("team" :> JStr("eng"))>>))
    @@ "{\"sentiment\":\"positive\",\"key_issues\":[],\"action_items\":[{\"team\":\"eng\",\"task\":\"fix\"},{\"task\":\"fix\"}]}"
        :> Feedback(JStr("positive"), JArr(<<>>),
                    JArr(<<Item(JStr("eng"), JStr("fix")), JObj("task" :> JStr("fix"))>>))
    @@ "{\"sentiment\":\"positive\",\"key_issues\":[],\"action_items\":[null]}"
        :> Feedback(JStr("positive"), JArr(<<>>), JArr(<<JNull>>))
    @@ "{\"sentiment\":\"positive\",\"key_issues\":[],\"action_items\":[\"fix\"]}"
        :> Feedback(JStr("positive"), JArr(<<>>), JArr(<<JStr("fix")>>))
    @@ "{\"sentiment\":\"positive\",\"key_issues\":[],\"action_items\":[[]]}"
        :> Feedback(JStr("positive"), JArr(<<>>), JArr(<<JArr(<<>>)>>))
    @@ "[]" :> JArr(<<>>)
    @@ "{}" :> JObj(<<>>)
    @@ "null" :> JNull
    @@ "0" :> JNum(0)
    @@ "42" :> JNum(42)
    @@ "\"positive\"" :> JStr("positive")

(* texts JSON.parse throws a SyntaxError on *)
NotJson ==
    { "Here is the analysis you asked for.",
      "json: {\"sentiment\":\"positive\",\"key_issues\":[],\"action_items\":[]}",
      "{\"sentiment\":\"positive\",",
      "" }

ReplyTexts == (DOMAIN JsonTable) \cup NotJson

JSONParse(text) ==
    IF text \in DOMAIN JsonTable
    THEN [ok |-> TRUE, value |-> JsonTable[text]]
    ELSE [ok |-> FALSE, value |-> JUndefined]

-----------------------------------------------------------------------------
(* Structured Output CLI                                                     *)

Sentiments == {"positive", "negative", "neutral"}

isValidFeedbackAnalysisNoTask(data) ==
    IF JsFalsy(data) \/ ~TypeofObject(data) THEN FALSE
    ELSE /\ \E s \in Sentiments : StrictEq(Get(data, "sentiment"), s)
         /\ IsArray(Get(data, "key_issues"))
         /\ IsArray(Get(data, "action_items"))
         /\ \A i \in DOMAIN Get(data, "action_items").v :
              LET item == Get(data, "action_items").v[i]
              IN TypeofObject(item) /\ item.t # "null" /\ In("team", item)

(* the type guard applied to the parsed reply *)
isValidFeedbackAnalysis(data) ==
    IF JsFalsy(data) \/ ~TypeofObject(data) THEN FALSE
    ELSE /\ \/ StrictEq(Get(data, "sentiment"), "positive")
            \/ StrictEq(Get(data, "sentiment"), "negative")
            \/ StrictEq(Get(data, "sentiment"), "neutral")
         /\ IsArray(Get(data, "key_issues"))
         /\ IsArray(Get(data, "action_items"))
         /\ \A i \in DOMAIN Get(data, "action_items").v :
              LET item == Get(data, "action_items").v[i]
              IN /\ TypeofObject(item)
                 /\ item.t # "null"
                 /\ In("team", item)
                 /\ In("task", item)

UsageOf(text) ==
    TokenTable(<<estimateTokens(argv.prompt[1]), estimateTokens(text),
                 estimateTokens(argv.prompt[1]) + estimateTokens(text)>>)

(* what the try block prints once the reply is validated; the tables of     *)
(* cli-table3 are taken to render whatever team and task hold               *)
StructuredDisplay(data, text) ==
    <<T("Customer Feedback Analysis"), T("Structured JSON Response")>>
    \o (IF Get(data, "action_items").v # <<>> THEN <<T("Action Items")>> ELSE <<>>)
    \o <<UsageOf(text)>>

RawFallbackNoSummary(text) == <<T("Raw Response (Invalid JSON)")>>

(* what the catch of the parse-and-validate block prints *)
RawFallback(text) == <<T("Raw Response (Invalid JSON)"), UsageOf(text)>>

notStructuredVars == <<budgetVars, agentVars, toolDemoVars, streamVars>>

(* main, up to the request *)
StructuredMain ==
    /\ comp = "structured_output" /\ pc = "start"
    /\ IF CannotStart
       THEN RefuseToStart /\ UNCHANGED sent
       ELSE /\ out' = Append(out, T("Request to Claude 3.7 Sonnet"))
            /\ sent' = Append(sent, Request("main", argv.maxTokens, None,
                   <<Message("user", <<TextBlock(argv.prompt[1])>>)>>, {}))
            /\ pc' = "await"
            /\ UNCHANGED exitCode
    /\ UNCHANGED <<cliVars, failures, trace, response, notStructuredVars>>

(* the reply arrives with its text: parse, validate, display; whatever the   *)
(* parse-and-validate block throws is caught by the raw-text fallback        *)
StructuredResponse ==
    /\ comp = "structured_output" /\ pc = "await"
    /\ \E text \in ReplyTexts :
         LET parsed == JSONParse(text)
         IN /\ response' = <<TextBlock(text)>>
            /\ IF ~parsed.ok
               THEN /\ trace' = <<"received", "parse-failed">>
                    /\ out' = out \o RawFallback(text)
               ELSE IF ~isValidFeedbackAnalysis(parsed.value)
               THEN /\ trace' = <<"received", "parsed", "validation-failed">>
                    /\ out' = out \o RawFallback(text)
               ELSE /\ trace' = <<"received", "parsed", "validated">>
                    /\ out' = out \o StructuredDisplay(parsed.value, text)
    /\ Exit(0)
    /\ UNCHANGED <<cliVars, sent, failures, notStructuredVars>>

(* the reply has no content block: response.content[0].text throws, the      *)
(* outer catch prints and exits                                              *)
StructuredEmptyReply ==
    /\ comp = "structured_output" /\ pc = "await"
    /\ response' = <<>>
    /\ out' = out \o CaughtError
    /\ Exit(1)
    /\ UNCHANGED <<cliVars, sent, failures, trace, notStructuredVars>>

(* the request is rejected *)
StructuredApiError ==
    /\ comp = "structured_output" /\ pc = "await"
    /\ failures' = failures \cup {"main"}
    /\ out' = out \o CaughtError
    /\ Exit(1)
    /\ UNCHANGED <<cliVars, sent, trace, response, notStructuredVars>>

-----------------------------------------------------------------------------
(* Weather Lookup Utility                                                    *)

(* a JavaScript value that is a number or a string *)
Num(n) == [k |-> "number", n |-> n, s |-> ""]

Str(s) == [k |-> "string", n |-> 0, s |-> s]

weatherCodes ==
    0 :> "Clear sky" @@ 1 :> "Mainly clear" @@ 2 :> "Partly cloudy"
    @@ 3 :> "Overcast" @@ 45 :> "Fog" @@ 48 :> "Depositing rime fog"
    @@ 51 :> "Light drizzle" @@ 53 :> "Moderate drizzle" @@ 55 :> "Dense drizzle"
    @@ 56 :> "Light freezing drizzle" @@ 57 :> "Dense freezing drizzle"
    @@ 61 :> "Slight rain" @@ 63 :> "Moderate rain" @@ 65 :> "Heavy rain"
    @@ 66 :> "Light freezing rain" @@ 67 :> "Heavy freezing rain"
    @@ 71 :> "Slight snow fall" @@ 73 :> "Moderate snow fall"
    @@ 75 :> "Heavy snow fall" @@ 77 :> "Snow grains"
    @@ 80 :> "Slight rain showers" @@ 81 :> "Moderate rain showers"
    @@ 82 :> "Violent rain showers" @@ 85 :> "Slight snow showers"
    @@ 86 :> "Heavy snow showers" @@ 95 :> "Thunderstorm"
    @@ 96 :> "Thunderstorm with slight hail"
    @@ 99 :> "Thunderstorm with heavy hail"

(* What the two Open-Meteo endpoints answer: geo is "error" when the         *)
(* geocoding call throws (no response, or a body that is not JSON), "none"   *)
(* when the body carries no results, else "found"; ok says whether the       *)
(* conditions call came back with a JSON body; code, temp and hum are the    *)
(* fields of current, None when absent.  geoStatus and wxStatus are the HTTP *)
(* statuses of the two responses, 0 when no response arrived or the          *)
(* endpoint was not asked; getWeather never reads them.                      *)
Answer(geo, ok, code, temp, hum) ==
    [geo |-> geo, ok |-> ok, code |-> code, temp |-> temp, hum |-> hum,
     geoStatus |-> IF geo = "error" THEN 0 ELSE 200,
     wxStatus |-> IF geo = "found" /\ ok THEN 200 ELSE 0]

(* the same bodies arriving with other statuses *)
Refused(answer, geoStatus, wxStatus) ==
    [answer EXCEPT !.geoStatus = geoStatus, !.wxStatus = wxStatus]

(* an error page that is not JSON; an error object {error, reason} that is   *)
(* JSON and has neither results nor current                                  *)
RefusedAnswers ==
    { Refused(Answer("error", FALSE, None, None, None), 500, 0),
      Refused(Answer("none", FALSE, None, None, None), 400, 0),
      Refused(Answer("found", FALSE, None, None, None), 200, 500),
      Refused(Answer("found", TRUE, None, None, None), 200, 400) }

WeatherAnswers(codes) ==
    { Answer("error", FALSE, None, None, None),
      Answer("none", FALSE, None, None, None),
      Answer("found", FALSE, None, None, None),
      Answer("found", TRUE, None, None, None),
      Answer("found", TRUE, None, Some(20), Some(40)) }
    \cup RefusedAnswers
    \cup { Answer("found", TRUE, Some(c), Some(20), Some(40)) : c \in codes }
    \cup { Answer("found", TRUE, Some(c), Some(0), Some(0)) : c \in codes }

(* one call of getWeather: the location asked for, what the service         *)
(* answered and the endpoints that were fetched, in order                    *)
Call(location, answer, urls) ==
    [location |-> location, answer |-> answer, urls |-> urls]

(* current.weather_code || 0 *)
CodeOrZero(answer) == IF answer.code = None THEN 0 ELSE answer.code[1]

ConditionOfAlwaysUnknown(weatherCode) == "Unknown"

(* weatherCodes[weatherCode] || 'Unknown' *)
ConditionOf(weatherCode) ==
    IF weatherCode \in DOMAIN weatherCodes
    THEN weatherCodes[weatherCode]
    ELSE "Unknown"

Weather(temperature, temperature_c, condition, humidity, alerts) ==
    [temperature |-> temperature, temperature_c |-> temperature_c,
     condition |-> condition, humidity |-> humidity, alerts |-> alerts]

Fetched(data, log, urls) == [data |-> data, log |-> log, urls |-> urls]

UrlsFetchedBoth(answer) == <<"geocoding", "forecast">>

(* the URLs fetch is called with before getWeather returns: the forecast    *)
(* URL is built from results[0], after the early return for no results      *)
UrlsFetched(answer) ==
    IF answer.geo = "found" THEN <<"geocoding", "forecast">> ELSE <<"geocoding">>

(* getWeather of the two tool-use CLIs: no alerts, no Fahrenheit *)
getWeather(location, answer) ==
    IF answer.geo = "error" \/ (answer.geo = "found" /\ ~answer.ok)
    THEN Fetched(Weather(Str("Error"), None, "Service unavailable", T("Unknown"), None),
                 <<T("Error fetching weather data:")>>, UrlsFetched(answer))
    ELSE IF answer.geo = "none"
    THEN Fetched(Weather(Str("Unknown"), None, "Location not found", T("Unknown"), None),
                 <<>>, UrlsFetched(answer))
    ELSE Fetched(Weather(IF answer.temp = None THEN Str("Unknown") ELSE Num(answer.temp[1]),
                         None,
                         ConditionOf(CodeOrZero(answer)),
                         IF answer.hum = None THEN T("Unknown%")
                         ELSE TN("%", <<answer.hum[1]>>),
                         None),
                 <<>>, UrlsFetched(answer))

(* the alerts the Local MCP Server derives from the code, in push order *)
AlertsOf(weatherCode) ==
    (IF weatherCode >= 95 THEN <<"Thunderstorm Warning">> ELSE <<>>)
    \o (IF weatherCode = 65 \/ weatherCode = 67 \/ weatherCode = 82
        THEN <<"Heavy Rain Warning">> ELSE <<>>)
    \o (IF weatherCode = 75 \/ weatherCode = 86
        THEN <<"Heavy Snow Warning">> ELSE <<>>)
    \o (IF weatherCode \in {56, 57, 66, 67}
        THEN <<"Freezing Precipitation Warning">> ELSE <<>>)

(* (tempC * 9 / 5) + 32; the temperatures of the model are multiples of 5 *)
Fahrenheit(tempC) == (tempC * 9) \div 5 + 32

(* getWeather of the Local MCP Server *)
getWeatherMcp(location, answer) ==
    IF answer.geo = "error" \/ (answer.geo = "found" /\ ~answer.ok)
    THEN Fetched(Weather(Str("Error"), Some(Str("Error")), "Service unavailable",
                         T("Unknown"), Some(<<"Weather service unavailable">>)),
                 <<T("Error fetching weather data:")>>, UrlsFetched(answer))
    ELSE IF answer.geo = "none"
    THEN Fetched(Weather(Str("Unknown"), None, "Location not found", T("Unknown"),
                         Some(<<>>)),
                 <<>>, UrlsFetched(answer))
    ELSE Fetched(Weather(IF answer.temp = None THEN Str("Unknown")
                         ELSE Num(Fahrenheit(answer.temp[1])),
                         IF answer.temp = None THEN None ELSE Some(Num(answer.temp[1])),
                         ConditionOf(CodeOrZero(answer)),
                         IF answer.hum = None \/ answer.hum[1] = 0 THEN T("Unknown%")
                         ELSE TN("%", <<answer.hum[1]>>),
                         Some(AlertsOf(CodeOrZero(answer)))),
                 <<>>, UrlsFetched(answer))

-----------------------------------------------------------------------------
(* What the tool-use demonstrations share                                    *)

(* the input object of a get_weather, get_clothing_recommendation or fetch   *)
(* tool_use; a field the model left out is None                              *)
DemoInput(location, temperature, conditions, url) ==
    [location |-> location, temperature |-> temperature,
     conditions |-> conditions, url |-> url]

UseWeather(location) ==
    ToolUseBlock("get_weather", DemoInput(location, None, None, None))

UseClothing ==
    ToolUseBlock("get_clothing_recommendation",
                 DemoInput(None, Some(20), Some("Overcast"), None))

UseFetch ==
    ToolUseBlock("fetch", DemoInput(None, None, None, Some("https://docs.anthropic.com")))

(* Array.prototype.find: the first block of the type, None when there is none *)
Find(blocks, type) ==
    IF Filter(blocks, type) = <<>> THEN None ELSE Some(Filter(blocks, type)[1])

Texts(blocks) == Filter(blocks, "text")

(* the text handed back for a weather tool_use *)
WeatherText(data) == [lit |-> "Temperature, Condition, Humidity", of |-> data]

(* the weather service as the two CLIs see it *)
DemoAnswers == WeatherAnswers({0, 3, 12, 67})

-----------------------------------------------------------------------------
(* Simple Tool Use CLI                                                       *)

notToolUseVars == <<trace, budgetVars, agentVars, clothingRec, streamVars>>

ToolUseTurn1Replies ==
    { <<TextBlock("It is usually mild.")>>,
      <<>>,
      <<TextBlock("Let me check."), UseWeather(Some("Paris"))>>,
      <<UseWeather(None)>>,
      <<UseWeather(Some(""))>>,
      <<UseWeather(Some("Paris")), UseWeather(Some("Oslo"))>> }

ToolUseTurn2Replies ==
    { <<TextBlock("It is overcast in Paris.")>>,
      <<UseWeather(Some("Oslo"))>>,
      <<>> }

(* main, up to the first request *)
ToolUseMain ==
    /\ comp = "simple_tool_use" /\ pc = "start"
    /\ IF CannotStart
       THEN RefuseToStart /\ UNCHANGED sent
       ELSE /\ out' = out \o <<T("Weather Tool Definition"), T("Request to Claude 3.7 Sonnet")>>
            /\ sent' = Append(sent, Request("main", argv.maxTokens, None,
                   <<Message("user", <<TextBlock(argv.prompt[1])>>)>>, {"get_weather"}))
            /\ pc' = "await1"
            /\ UNCHANGED exitCode
    /\ UNCHANGED <<cliVars, failures, response, continuation, weatherCalls,
                   weatherData, notToolUseVars>>

FinalDisplay(heading, blocks, counts) ==
    IF Texts(blocks) # <<>> THEN <<T(heading), TokenTable(counts)>> ELSE <<>>

(* the first reply arrives: with a tool_use the weather is looked up next,   *)
(* without one the text is displayed and main returns                        *)
ToolUseResponse1 ==
    /\ comp = "simple_tool_use" /\ pc = "await1"
    /\ \E r \in ToolUseTurn1Replies :
         /\ response' = WithIds(r, 1)
         /\ IF Filter(r, "tool_use") # <<>>
            THEN /\ out' = Append(out, T("Tool Use Request"))
                 /\ pc' = "weather"
                 /\ UNCHANGED exitCode
            ELSE /\ out' = out \o FinalDisplay("Claude's Response (No Tool Use)", r, <<>>)
                 /\ Exit(0)
    /\ UNCHANGED <<cliVars, sent, failures, continuation, weatherCalls,
                   weatherData, notToolUseVars>>

(* toolUseBlocks[0] *)
FirstToolUse(content) == Filter(content, "tool_use")[1]

(* toolInput && toolInput.location ? toolInput.location : 'Unknown' *)
LocationOf(toolUse) ==
    IF FalsyStr(toolUse.input.location) THEN "Unknown" ELSE toolUse.input.location[1]

(* getWeather answers; the result goes back in the second request *)
ToolUseWeather ==
    /\ comp = "simple_tool_use" /\ pc = "weather"
    /\ \E answer \in DemoAnswers :
         LET toolUse == FirstToolUse(response)
             location == LocationOf(toolUse)
             got == getWeather(location, answer)
         IN /\ weatherCalls' = Append(weatherCalls, Call(location, answer, got.urls))
            /\ weatherData' = Some(got.data)
            /\ out' = out \o got.log \o <<T("Real Weather Data for"), T("Tool Result")>>
            /\ sent' = Append(sent, Request("main", argv.maxTokens, None,
                   <<Message("user", <<TextBlock(argv.prompt[1])>>),
                     Message("assistant", response),
                     Message("user", <<ToolResultBlock(toolUse.id, WeatherText(got.data))>>)>>,
                   {"get_weather"}))
    /\ pc' = "await2"
    /\ UNCHANGED <<cliVars, exitCode, failures, response, continuation,
                   notToolUseVars>>

(* the second reply arrives: the final text is displayed *)
ToolUseResponse2 ==
    /\ comp = "simple_tool_use" /\ pc = "await2"
    /\ \E r \in ToolUseTurn2Replies :
         /\ continuation' = WithIds(r, 2)
         /\ out' = out \o FinalDisplay("Claude's Final Response", r, <<>>)
    /\ Exit(0)
    /\ UNCHANGED <<cliVars, sent, failures, response, weatherCalls, weatherData,
                   notToolUseVars>>

(* either request is rejected *)
ToolUseApiError ==
    /\ comp = "simple_tool_use" /\ pc \in {"await1", "await2"}
    /\ failures' = failures \cup {"main"}
    /\ out' = out \o CaughtError
    /\ Exit(1)
    /\ UNCHANGED <<cliVars, sent, response, continuation, weatherCalls,
                   weatherData, notToolUseVars>>

-----------------------------------------------------------------------------
(* The max-tokens rule of the thinking CLIs                                  *)

RaiseMaxTokensNot(requested, budget) == requested

(* if (maxTokens <= thinkingBudget) maxTokens = thinkingBudget + 1000 *)
RaiseMaxTokens(requested, budget) ==
    IF requested <= budget THEN budget + 1000 ELSE requested

RaiseWarning(requested, budget) ==
    IF requested <= budget
    THEN <<TN("Warning: max-tokens must be greater than thinking-budget-tokens. Setting max-tokens to",
              <<budget + 1000>>)>>
    ELSE <<>>

(* the command lines the thinking CLIs are launched with *)
ThinkingArgs(prompts) ==
    Args(prompts, {1000, 2000, 4000}, {500, 1024, 2000}, {0}, {FALSE})

-----------------------------------------------------------------------------
(* Extended Thinking + Tool Use CLI                                          *)

notEtToolsVars == <<trace, agentVars, streamVars>>

EtToolsTurn1Replies ==
    { <<ThinkingBlock("plan"), TextBlock("It is usually mild.")>>,
      <<>>,
      <<ThinkingBlock("plan"), UseWeather(Some("Paris"))>>,
      <<UseWeather(None)>>,
      <<ThinkingBlock("plan"), UseClothing>>,
      <<UseFetch>>,
      <<ThinkingBlock("plan"), UseWeather(Some("Paris")), UseWeather(Some("Oslo"))>> }

EtToolsTurn2Replies ==
    { <<TextBlock("It is overcast in Paris.")>>,
      <<>>,
      <<ThinkingBlock("next"), UseClothing>>,
      <<UseClothing, UseWeather(Some("Oslo"))>>,
      <<UseFetch>>,
      <<UseWeather(Some("Oslo"))>> }

EtToolsTurn3Replies ==
    { <<TextBlock("Wear a coat in Paris.")>>, <<>> }

EtTools == {"get_weather", "get_clothing_recommendation"}

(* main, up to the first request: clamp, raise, tool definitions, request *)
EtToolsMain ==
    /\ comp = "et_tool_use" /\ pc = "start"
    /\ IF CannotStart
       THEN RefuseToStart /\ UNCHANGED <<sent, budgetVars>>
       ELSE LET budget == ClampBudget(argv.thinkingBudget)
                tokens == RaiseMaxTokens(argv.maxTokens, budget)
            IN /\ thinkingBudget' = budget
               /\ maxTokens' = tokens
               /\ out' = out \o ClampWarning(argv.thinkingBudget)
                             \o RaiseWarning(argv.maxTokens, budget)
                             \o <<T("Weather Tool Definition"), T("Clothing Tool Definition"),
                                  T("Request to Claude 3.7 Sonnet")>>
               /\ sent' = Append(sent, Request("main", tokens, Some(budget),
                      <<Message("user", <<TextBlock(argv.prompt[1])>>)>>, EtTools))
               /\ pc' = "await1"
               /\ UNCHANGED exitCode
    /\ UNCHANGED <<cliVars, failures, response, toolDemoVars, notEtToolsVars>>

(* the first reply arrives *)
EtToolsResponse1 ==
    /\ comp = "et_tool_use" /\ pc = "await1"
    /\ \E r \in EtToolsTurn1Replies :
         LET content == WithIds(r, 1)
             thinkingBlock == Find(content, "thinking")
             toolUseBlock == Find(content, "tool_use")
             shown == <<T("API Response")>>
                      \o (IF thinkingBlock # None
                          THEN <<T("Claude's Thinking Process")>> ELSE <<>>)
         IN /\ response' = content
            /\ IF toolUseBlock = None
               THEN /\ out' = out \o shown
                         \o (IF Texts(content) # <<>>
                             THEN <<T("Claude's Response (No Tool Use)")>> ELSE <<>>)
                    /\ Exit(0)
               ELSE IF toolUseBlock[1].name = "get_weather"
               THEN /\ out' = out \o shown \o <<T("Tool Use Request:")>>
                    /\ pc' = "weather"
                    /\ UNCHANGED exitCode
               ELSE /\ out' = out \o shown \o <<T("Tool Use Request:"),
                                                T("not implemented in this example")>>
                    /\ Exit(0)
    /\ UNCHANGED <<cliVars, sent, failures, budgetVars, toolDemoVars,
                   notEtToolsVars>>

(* thinkingBlock ? [thinkingBlock, toolUseBlock] : [toolUseBlock] *)
Turn1ContentToolOnly(content) == Find(content, "tool_use")

Turn1Content(content) ==
    (IF Find(content, "thinking") # None THEN Find(content, "thinking") ELSE <<>>)
    \o Find(content, "tool_use")

(* the first three messages of the second and of the third request *)
WeatherExchange(content, data) ==
    <<Message("user", <<TextBlock(argv.prompt[1])>>),
      Message("assistant", Turn1Content(content)),
      Message("user", <<ToolResultBlock(Find(content, "tool_use")[1].id,
                                        WeatherText(data))>>)>>

(* getWeather answers; the result goes back in the second request *)
EtToolsWeather ==
    /\ comp = "et_tool_use" /\ pc = "weather"
    /\ \E answer \in DemoAnswers :
         LET toolUseBlock == Find(response, "tool_use")[1]
             location == IF FalsyStr(toolUseBlock.input.location) THEN "Unknown"
                         ELSE toolUseBlock.input.location[1]
             got == getWeather(location, answer)
         IN /\ weatherCalls' = Append(weatherCalls, Call(location, answer, got.urls))
            /\ weatherData' = Some(got.data)
            /\ out' = out \o got.log \o <<T("Real Weather Data for"), T("Tool Result")>>
            /\ sent' = Append(sent, Request("main", maxTokens, Some(thinkingBudget),
                   WeatherExchange(response, got.data), EtTools))
    /\ pc' = "await2"
    /\ UNCHANGED <<cliVars, exitCode, failures, budgetVars, response,
                   continuation, clothingRec, notEtToolsVars>>

(* the second reply arrives: a get_clothing_recommendation tool_use found    *)
(* first starts the nested request, anything else ends the run               *)
EtToolsResponse2 ==
    /\ comp = "et_tool_use" /\ pc = "await2"
    /\ \E r \in EtToolsTurn2Replies :
         LET content == WithIds(r, 2)
             secondToolUse == Find(content, "tool_use")
         IN /\ continuation' = content
            /\ IF secondToolUse # None
                  /\ secondToolUse[1].name = "get_clothing_recommendation"
               THEN /\ out' = Append(out, T("Tool Use Request:"))
                    /\ sent' = Append(sent, Request("getClothingRecommendation", 100, None,
                           <<Message("user", <<TextBlock("clothing prompt")>>)>>, {}))
                    /\ pc' = "awaitNested"
                    /\ UNCHANGED exitCode
               ELSE /\ out' = out \o (IF Texts(content) # <<>>
                                      THEN <<T("Claude's Response After Weather Tool")>>
                                      ELSE <<>>)
                    /\ UNCHANGED sent
                    /\ Exit(0)
    /\ UNCHANGED <<cliVars, failures, budgetVars, response, weatherCalls,
                   weatherData, clothingRec, notEtToolsVars>>

(* what the nested request comes to: a text, no content block, a rejection *)
NestedOutcomes ==
    { [ok |-> TRUE, content |-> <<TextBlock(<<" ", "c", "o", "a", "t", "\n">>)>>],
      [ok |-> TRUE, content |-> <<>>],
      [ok |-> FALSE, content |-> <<>>] }

(* getClothingRecommendation after its request: every failure is caught and  *)
(* turned into a recommendation text                                         *)
getClothingRecommendation(outcome) ==
    IF outcome.ok /\ outcome.content # <<>>
    THEN Fetched(TC("", Trim(outcome.content[1].text)), <<>>, <<>>)
    ELSE Fetched(T("Unable to generate clothing recommendations at this time."),
                 <<T("Error generating clothing recommendation:")>>, <<>>)

(* the nested request ends; the recommendation goes back in the third request *)
EtToolsClothing ==
    /\ comp = "et_tool_use" /\ pc = "awaitNested"
    /\ \E outcome \in NestedOutcomes :
         LET rec == getClothingRecommendation(outcome)
             secondToolUse == Find(continuation, "tool_use")[1]
         IN /\ failures' = IF outcome.ok THEN failures
                           ELSE failures \cup {"getClothingRecommendation"}
            /\ clothingRec' = Some(rec.data)
            /\ out' = out \o rec.log \o <<T("Clothing Recommendation"), T("Second Tool Result")>>
            /\ sent' = Append(sent, Request("main", maxTokens, Some(thinkingBudget),
                   WeatherExchange(response, weatherData[1])
                   \o <<Message("assistant", continuation),
                        Message("user", <<ToolResultBlock(secondToolUse.id, rec.data)>>)>>,
                   EtTools))
    /\ pc' = "await3"
    /\ UNCHANGED <<cliVars, exitCode, budgetVars, response, continuation,
                   weatherCalls, weatherData, notEtToolsVars>>

(* the third reply arrives: the final text and the token summary *)
EtToolsResponse3 ==
    /\ comp = "et_tool_use" /\ pc = "await3"
    /\ \E r \in EtToolsTurn3Replies :
         out' = out \o FinalDisplay("Claude's Final Response", r, <<>>)
    /\ Exit(0)
    /\ UNCHANGED <<cliVars, sent, failures, budgetVars, response, toolDemoVars,
                   notEtToolsVars>>

(* one of the three requests of main is rejected *)
EtToolsApiError ==
    /\ comp = "et_tool_use" /\ pc \in {"await1", "await2", "await3"}
    /\ failures' = failures \cup {"main"}
    /\ out' = out \o CaughtError
    /\ Exit(1)
    /\ UNCHANGED <<cliVars, sent, budgetVars, response, toolDemoVars,
                   notEtToolsVars>>

-----------------------------------------------------------------------------
(* Extended Thinking CLI                                                     *)

notEtVars == <<trace, agentVars, continuation, weatherCalls, weatherData,
               clothingRec, streamVars>>

EtReplies ==
    { <<ThinkingBlock("reasoning"), TextBlock("answer")>>,
      <<TextBlock("answer")>>,
      <<ThinkingBlock("reasoning")>>,
      <<>> }

(* main, up to the request: clamp, raise, request *)
EtMain ==
    /\ comp = "extended_thinking" /\ pc = "start"
    /\ IF CannotStart
       THEN RefuseToStart /\ UNCHANGED <<sent, budgetVars>>
       ELSE LET budget == ClampBudget(argv.thinkingBudget)
                tokens == RaiseMaxTokens(argv.maxTokens, budget)
            IN /\ thinkingBudget' = budget
               /\ maxTokens' = tokens
               /\ out' = out \o ClampWarning(argv.thinkingBudget)
                             \o RaiseWarning(argv.maxTokens, budget)
                             \o <<T("Request to Claude 3.7 Sonnet")>>
               /\ sent' = Append(sent, Request("main", tokens, Some(budget),
                      <<Message("user", <<TextBlock(argv.prompt[1])>>)>>, {}))
               /\ pc' = "await"
               /\ UNCHANGED exitCode
    /\ UNCHANGED <<cliVars, failures, response, notEtVars>>

(* the reply arrives: the reasoning, the answer and the token summary *)
EtResponse ==
    /\ comp = "extended_thinking" /\ pc = "await"
    /\ \E r \in EtReplies :
         /\ response' = r
         /\ out' = out \o <<T("API Response")>>
                \o (IF Filter(r, "thinking") # <<>>
                    THEN <<T("Claude's Thinking Process")>> ELSE <<>>)
                \o (IF Texts(r) # <<>>
                    THEN <<T("Claude's Response"),
                           TokenTable(<<estimateTokens(argv.prompt[1]),
                                        estimateTokens(Texts(r)[1].text),
                                        IF Filter(r, "thinking") # <<>>
                                        THEN estimateTokens(Filter(r, "thinking")[1].text)
                                        ELSE 0>>)>>
                    ELSE <<>>)
    /\ Exit(0)
    /\ UNCHANGED <<cliVars, sent, failures, budgetVars, notEtVars>>

(* the request is rejected *)
EtApiError ==
    /\ comp = "extended_thinking" /\ pc = "await"
    /\ failures' = failures \cup {"main"}
    /\ out' = out \o CaughtError
    /\ Exit(1)
    /\ UNCHANGED <<cliVars, sent, budgetVars, response, notEtVars>>

-----------------------------------------------------------------------------
(* Streamed replies                                                          *)

Event(type, block, delta, text) ==
    [type |-> type, block |-> block, delta |-> delta, text |-> text]

Fragment == <<"a">>

LongerFragment == <<"h", "e", "l", "l", "o">>

(* a fragment of 4400 characters, as a reasoning trace may come in *)
HugeFragment == [i \in 1..4400 |-> "x"]

(* the events a stream may deliver next *)
Events(fragments) ==
    { Event("message_start", "", "", <<>>),
      Event("content_block_start", "thinking", "", <<>>),
      Event("content_block_start", "text", "", <<>>),
      Event("content_block_stop", "", "", <<>>),
      Event("content_block_delta", "", "signature_delta", <<"s">>) }
    \cup { Event("content_block_delta", "", "thinking_delta", f) : f \in fragments }
    \cup { Event("content_block_delta", "", "text_delta", f) : f \in fragments }

AccumulateLatest(content, fragment) == fragment

(* content += fragment *)
Accumulate(content, fragment) == content \o fragment

notStreamVars == <<trace, agentVars, response, toolDemoVars>>

(* what the body of a for-await round prints besides the fragment itself *)
EventPrint(event, blockType) ==
    <<T("Event type:")>>
    \o (IF event.type = "content_block_start" THEN <<T("Block Start:")>>
        ELSE IF event.type = "content_block_stop" THEN <<T("Block Complete:")>>
        ELSE <<>>)

(* what is printed once the stream has ended *)
StreamSummary ==
    (IF thinkingContent # <<>> THEN <<T("Complete Thinking Process")>> ELSE <<>>)
    \o (IF responseContent # <<>> THEN <<T("Claude's Final Response")>> ELSE <<>>)
    \o <<TokenTable(<<estimateTokens(argv.prompt[1]), responseTokens, thinkingTokens,
                      estimateTokens(argv.prompt[1]) + thinkingTokens + responseTokens>>)>>

-----------------------------------------------------------------------------
(* Extended Thinking + Streaming CLI                                         *)

(* main, up to the opening of the stream *)
StreamingMain ==
    /\ comp = "et_streaming" /\ pc = "start"
    /\ IF CannotStart
       THEN RefuseToStart /\ UNCHANGED <<sent, budgetVars>>
       ELSE LET budget == ClampBudget(argv.thinkingBudget)
                tokens == RaiseMaxTokens(argv.maxTokens, budget)
            IN /\ thinkingBudget' = budget
               /\ maxTokens' = tokens
               /\ out' = out \o ClampWarning(argv.thinkingBudget)
                             \o RaiseWarning(argv.maxTokens, budget)
                             \o <<T("Request to Claude 3.7 Sonnet"),
                                  T("Streaming response from Claude 3.7 Sonnet...")>>
               /\ sent' = Append(sent, Request("main", tokens, Some(budget),
                      <<Message("user", <<TextBlock(argv.prompt[1])>>)>>, {}))
               /\ pc' = "stream"
               /\ UNCHANGED exitCode
    /\ UNCHANGED <<cliVars, failures, streamVars, notStreamVars>>

(* one round of the for-await loop *)
StreamingEvent ==
    /\ comp = "et_streaming" /\ pc = "stream" /\ eventCount < MaxEvents
    /\ \E event \in Events({Fragment, LongerFragment}) :
         /\ eventCount' = eventCount + 1
         /\ events' = Append(events, event)
         /\ currentBlockType' = IF event.type = "content_block_start"
                                THEN Some(event.block) ELSE currentBlockType
         /\ IF event.type = "content_block_delta" /\ event.delta = "thinking_delta"
            THEN /\ thinkingContent' = Accumulate(thinkingContent, event.text)
                 /\ thinkingTokens' = thinkingTokens + estimateTokens(event.text)
                 /\ UNCHANGED <<responseContent, responseTokens>>
            ELSE IF event.type = "content_block_delta" /\ event.delta = "text_delta"
            THEN /\ responseContent' = Accumulate(responseContent, event.text)
                 /\ responseTokens' = responseTokens + estimateTokens(event.text)
                 /\ UNCHANGED <<thinkingContent, thinkingTokens>>
            ELSE UNCHANGED <<thinkingContent, thinkingTokens, responseContent,
                             responseTokens>>
         /\ out' = out \o EventPrint(event, currentBlockType)
    /\ UNCHANGED <<cliVars, pc, exitCode, sent, failures, budgetVars,
                   notStreamVars>>

(* the stream ends: the summary is printed and main returns *)
StreamingEnd ==
    /\ comp = "et_streaming" /\ pc = "stream"
    /\ out' = out \o StreamSummary
    /\ Exit(0)
    /\ UNCHANGED <<cliVars, sent, failures, budgetVars, streamVars, notStreamVars>>

(* the request is rejected or the stream breaks *)
StreamingApiError ==
    /\ comp = "et_streaming" /\ pc = "stream"
    /\ failures' = failures \cup {"main"}
    /\ out' = out \o CaughtError
    /\ Exit(1)
    /\ UNCHANGED <<cliVars, sent, budgetVars, streamVars, notStreamVars>>

-----------------------------------------------------------------------------
(* Extended Output + Thinking + Streaming CLI                                *)

(* Math.round((tokens / budget) * 100), for a positive budget *)
Percentage(tokens, budget) == (200 * tokens + budget) \div (2 * budget)

(* createProgressBar: String.prototype.repeat throws a RangeError on a       *)
(* negative count                                                            *)
createProgressBar(percentage, length) ==
    LET filledLength == (percentage * length) \div 100
    IN [throws |-> length - filledLength < 0,
        filled |-> filledLength,
        empty |-> length - filledLength]

(* main, up to the opening of the stream: the budget is clamped, max-tokens  *)
(* is sent as given                                                          *)
ExtOutputMain ==
    /\ comp = "extended_output" /\ pc = "start"
    /\ IF CannotStart
       THEN RefuseToStart /\ UNCHANGED <<sent, budgetVars>>
       ELSE LET budget == ClampBudget(argv.thinkingBudget)
            IN /\ thinkingBudget' = budget
               /\ maxTokens' = argv.maxTokens
               /\ out' = out \o ClampWarning(argv.thinkingBudget)
                             \o <<T("Request to Claude 3.7 Sonnet"),
                                  T("Streaming response from Claude 3.7 Sonnet...")>>
               /\ sent' = Append(sent, Request("main", argv.maxTokens, Some(budget),
                      <<Message("user", <<TextBlock(argv.prompt[1])>>)>>, {}))
               /\ pc' = "stream"
               /\ UNCHANGED exitCode
    /\ UNCHANGED <<cliVars, failures, streamVars, notStreamVars>>

(* one round of the for-await loop; the progress bar is built on every       *)
(* fragment and printed for the long ones.  The "Event Data" dump, printed   *)
(* for every event that is no fragment and for one fragment in twenty at     *)
(* random, changes nothing but the output and is left out.                   *)
ExtOutputEvent ==
    /\ comp = "extended_output" /\ pc = "stream" /\ eventCount < MaxEvents
    /\ \E event \in Events({Fragment, LongerFragment, HugeFragment}) :
         LET isThinking == event.type = "content_block_delta"
                           /\ event.delta = "thinking_delta"
             isText == event.type = "content_block_delta" /\ event.delta = "text_delta"
             tTokens == IF isThinking THEN thinkingTokens + estimateTokens(event.text)
                        ELSE thinkingTokens
             rTokens == IF isText THEN responseTokens + estimateTokens(event.text)
                        ELSE responseTokens
             bar == IF isThinking
                    THEN createProgressBar(Percentage(tTokens, thinkingBudget), 20)
                    ELSE createProgressBar(Percentage(rTokens, maxTokens), 20)
             threw == (isThinking \/ isText) /\ bar.throws
             progress == IF isThinking /\ Len(event.text) > 50
                         THEN <<TN("Thinking Progress:", <<bar.filled, bar.empty>>)>>
                         ELSE IF isText /\ Len(event.text) > 100
                         THEN <<TN("Response Progress:", <<bar.filled, bar.empty>>)>>
                         ELSE <<>>
         IN /\ eventCount' = eventCount + 1
            /\ events' = Append(events, event)
            /\ currentBlockType' = IF event.type = "content_block_start"
                                   THEN Some(event.block) ELSE currentBlockType
            /\ thinkingContent' = IF isThinking THEN Accumulate(thinkingContent, event.text)
                                  ELSE thinkingContent
            /\ responseContent' = IF isText THEN Accumulate(responseContent, event.text)
                                  ELSE responseContent
            /\ thinkingTokens' = tTokens
            /\ responseTokens' = rTokens
            /\ IF threw
               THEN /\ out' = out \o <<T("Event type:")>> \o CaughtError
                    /\ Exit(1)
               ELSE /\ out' = out \o EventPrint(event, currentBlockType) \o progress
                    /\ UNCHANGED <<pc, exitCode>>
    /\ UNCHANGED <<cliVars, sent, failures, budgetVars, notStreamVars>>

(* the stream ends: the summary is printed and main returns *)
ExtOutputEnd ==
    /\ comp = "extended_output" /\ pc = "stream"
    /\ out' = out \o StreamSummary
    /\ Exit(0)
    /\ UNCHANGED <<cliVars, sent, failures, budgetVars, streamVars, notStreamVars>>

(* the request is rejected or the stream breaks *)
ExtOutputApiError ==
    /\ comp = "extended_output" /\ pc = "stream"
    /\ failures' = failures \cup {"main"}
    /\ out' = out \o CaughtError
    /\ Exit(1)
    /\ UNCHANGED <<cliVars, sent, budgetVars, streamVars, notStreamVars>>

-----------------------------------------------------------------------------
(* Local MCP Server Example                                                  *)

notMcpVars == <<sent, failures, trace, budgetVars, agentVars, response,
                continuation, clothingRec, streamVars>>

(* main: --client runs the client demonstration, anything else the server *)
McpMain ==
    /\ comp = "mcp_local" /\ pc = "start"
    /\ IF argv.client
       THEN /\ out' = out \o <<T("User: What's the weather in"), T("Claude (thinking)"),
                               T("Fetching weather data...")>>
            /\ pc' = "client"
       ELSE /\ out' = out \o <<T("WEATHER MCP SERVER"), T("Server listening on port")>>
            /\ pc' = "serving"
    /\ UNCHANGED <<cliVars, exitCode, weatherCalls, weatherData, notMcpVars>>

(* what demonstrateClientUsage prints once getWeather has answered *)
WeatherDisplay(data) ==
    <<T("Weather Data for"),
      [lit |-> "Conditions:", chars |-> <<data.condition>>, nums |-> <<>>],
      [lit |-> "Alerts:", chars |-> IF data.alerts[1] = <<>> THEN <<"None">>
                                     ELSE data.alerts[1], nums |-> <<>>],
      T(IF data.alerts[1] # <<>> THEN "There are active weather alerts for"
        ELSE "There are no active weather alerts for"),
      T("Claude's Response")>>

(* demonstrateClientUsage: getWeather("Paris") answers, the table and the    *)
(* reply are printed and main returns                                        *)
McpClientWeather ==
    /\ comp = "mcp_local" /\ pc = "client"
    /\ \E answer \in WeatherAnswers(0..MaxCode) :
         LET got == getWeatherMcp("Paris", answer)
         IN /\ weatherCalls' = Append(weatherCalls, Call("Paris", answer, got.urls))
            /\ weatherData' = Some(got.data)
            /\ out' = out \o got.log \o WeatherDisplay(got.data)
    /\ Exit(0)
    /\ UNCHANGED <<cliVars, notMcpVars>>

(* the SIGINT handler of the server *)
McpSigint ==
    /\ comp = "mcp_local" /\ pc = "serving"
    /\ out' = out \o <<T("Shutting down server..."), T("Server stopped")>>
    /\ Exit(0)
    /\ UNCHANGED <<cliVars, weatherCalls, weatherData, notMcpVars>>

-----------------------------------------------------------------------------
(* Hosted Fetch MCP Example                                                  *)

notFetchVars == <<trace, budgetVars, agentVars, weatherCalls, weatherData,
                  clothingRec, streamVars>>

FetchQuestion == Message("user", <<TextBlock("Can you fetch the content from")>>)

NextSteps == <<T("NEXT STEPS")>>

FetchTurn1Replies ==
    { <<ThinkingBlock("I need the page."), UseFetch>>,
      <<TextBlock("Fetching."), UseFetch>>,
      <<UseFetch, UseFetch>>,
      <<ToolUseBlock("fetch", DemoInput(None, None, None, None))>>,
      <<TextBlock("I cannot browse.")>>,
      <<>> }

FetchTurn2Replies == { <<TextBlock("The guide covers setup.")>>, <<>> }

(* simulateFetchedContent ignores its argument *)
simulateFetchedContent(url) == "# Getting Started with the Claude API"

(* response.content.filter(thinking or tool_use) *)
RECURSIVE ThinkingAndToolUse(_)
ThinkingAndToolUse(blocks) ==
    IF blocks = <<>> THEN <<>>
    ELSE IF Head(blocks).type \in {"thinking", "tool_use"}
         THEN <<Head(blocks)>> \o ThinkingAndToolUse(Tail(blocks))
         ELSE ThinkingAndToolUse(Tail(blocks))

(* main and demonstrateFetchUsage up to the first request; without a key     *)
(* the simulated exchange is printed instead                                 *)
FetchMain ==
    /\ comp = "fetch_demo" /\ pc = "start"
    /\ IF ~apiKey
       THEN /\ out' = out \o <<T("FETCH MCP SERVER EXAMPLE"),
                               T("Note: No Anthropic API key found. This is a simulated example only."),
                               T("SIMULATED EXAMPLE"),
                               T("Claude's summary of the fetched content (simulated):")>>
                          \o NextSteps
            /\ Exit(0)
            /\ UNCHANGED sent
       ELSE /\ out' = out \o <<T("FETCH MCP SERVER EXAMPLE"),
                               T("LIVE EXAMPLE WITH CLAUDE 3.7 SONNET")>>
            /\ sent' = Append(sent, Request("main", 4000, Some(8000),
                                            <<FetchQuestion>>, {"fetch"}))
            /\ pc' = "await1"
            /\ UNCHANGED exitCode
    /\ UNCHANGED <<cliVars, failures, response, continuation, notFetchVars>>

(* the first reply arrives: the content for its first tool_use goes back in  *)
(* the second request; without a tool_use nothing more is asked              *)
FetchResponse1 ==
    /\ comp = "fetch_demo" /\ pc = "await1"
    /\ \E r \in FetchTurn1Replies :
         LET content == WithIds(r, 1)
             toolUseBlock == Find(content, "tool_use")
         IN /\ response' = content
            /\ IF toolUseBlock # None
               THEN /\ out' = Append(out, T("Claude requested to fetch content. Tool use details:"))
                    /\ sent' = Append(sent, Request("main", 4000, Some(8000),
                           <<FetchQuestion,
                             Message("assistant", ThinkingAndToolUse(content)),
                             Message("user", <<ToolResultBlock(toolUseBlock[1].id,
                                 simulateFetchedContent(toolUseBlock[1].input.url))>>)>>,
                           {"fetch"}))
                    /\ pc' = "await2"
                    /\ UNCHANGED exitCode
               ELSE /\ out' = out \o NextSteps
                    /\ Exit(0)
                    /\ UNCHANGED sent
    /\ UNCHANGED <<cliVars, failures, continuation, notFetchVars>>

(* the second reply arrives: its text is printed *)
FetchResponse2 ==
    /\ comp = "fetch_demo" /\ pc = "await2"
    /\ \E r \in FetchTurn2Replies :
         /\ continuation' = WithIds(r, 2)
         /\ out' = out \o <<T("Claude's summary of the fetched content:")>> \o NextSteps
    /\ Exit(0)
    /\ UNCHANGED <<cliVars, sent, failures, response, notFetchVars>>

(* either request is rejected: the error is logged and main goes on *)
FetchApiError ==
    /\ comp = "fetch_demo" /\ pc \in {"await1", "await2"}
    /\ failures' = failures \cup {"main"}
    /\ out' = out \o <<T("Error calling Claude API:")>> \o NextSteps
    /\ Exit(0)
    /\ UNCHANGED <<cliVars, sent, response, continuation, notFetchVars>>

-----------------------------------------------------------------------------
(* The programs of the repository, each launched with or without the key and *)
(* with the command lines that make its branches differ.                     *)

Init ==
    \/ Launch("agent", Args(AgentPrompts, {4000}, {500, 1024, 2000}, -1..MaxLoops, {FALSE}))
    \/ Launch("simple_prompt", Args(Prompts, {1000}, {0}, {0}, {FALSE}))
    \/ Launch("structured_output", Args(Prompts, {1000}, {0}, {0}, {FALSE}))
    \/ Launch("simple_tool_use", Args({None, Some("weather?")}, {1000}, {0}, {0}, {FALSE}))
    \/ Launch("et_tool_use", ThinkingArgs({None, Some("what to wear?")}))
    \/ Launch("extended_thinking", ThinkingArgs({None, Some(""), Some("why?")}))
    \/ Launch("et_streaming",
              Args({None, Some("why?")}, {1000, 4000}, {500, 2000}, {0}, {FALSE}))
    \/ Launch("extended_output",
              Args({None, Some("why?")}, {1000, 4000}, {500, 2000}, {0}, {FALSE}))
    \/ Launch("mcp_local", Args({None}, {0}, {0}, {0}, BOOLEAN))
    \/ Launch("fetch_demo", Args({None}, {0}, {0}, {0}, {FALSE}))

Next ==
    \/ AgentModuleInit
    \/ AgentParseArgs
    \/ RunAgentBegin
    \/ AgentLoopTest
    \/ AgentResponse
    \/ AgentApiError
    \/ AgentToolStep
    \/ AgentAfterLoop
    \/ SimplePromptMain
    \/ SimplePromptResponse
    \/ SimplePromptApiError
    \/ StructuredMain
    \/ StructuredResponse
    \/ StructuredEmptyReply
    \/ StructuredApiError
    \/ ToolUseMain
    \/ ToolUseResponse1
    \/ ToolUseWeather
    \/ ToolUseResponse2
    \/ ToolUseApiError
    \/ EtToolsMain
    \/ EtToolsResponse1
    \/ EtToolsWeather
    \/ EtToolsResponse2
    \/ EtToolsClothing
    \/ EtToolsResponse3
    \/ EtToolsApiError
    \/ EtMain
    \/ EtResponse
    \/ EtApiError
    \/ StreamingMain
    \/ StreamingEvent
    \/ StreamingEnd
    \/ StreamingApiError
    \/ ExtOutputMain
    \/ ExtOutputEvent
    \/ ExtOutputEnd
    \/ ExtOutputApiError
    \/ McpMain
    \/ McpClientWeather
    \/ McpSigint
    \/ FetchMain
    \/ FetchResponse1
    \/ FetchResponse2
    \/ FetchApiError

Spec == Init /\ [][Next]_vars

-----------------------------------------------------------------------------
(* Properties of the Bash/Editor Agent                                       *)

AgentFinished ==
    comp = "agent" /\ pc = "exited" /\ apiKey /\ ~FalsyStr(argv.prompt)

(* the replies received so far are the assistant turns of the conversation *)
AssistantTurns == {i \in DOMAIN messages : messages[i].role = "assistant"}

ToolUsesOf(content) == Filter(content, "tool_use")

EveryReplyCallsTools ==
    \A i \in AssistantTurns :
        /\ ToolUsesOf(messages[i].content) # <<>>
        /\ \A j \in DOMAIN ToolUsesOf(messages[i].content) :
               ToolUsesOf(messages[i].content)[j].name # "complete_task"

EveryCallNamesATool ==
    \A i \in AssistantTurns :
        \A j \in DOMAIN ToolUsesOf(messages[i].content) :
            ToolUsesOf(messages[i].content)[j].name \in ToolNames

(* every request was answered by a reply *)
NoRequestFailed == failures = {} /\ Cardinality(AssistantTurns) = Len(sent)

CapReached ==
    /\ Len(sent) = maxComputeLoops
    /\ Printed("Reached compute limit without completing task.")
    /\ exitCode = 0

(* C1, as stated: for every cap N >= 1, when every reply holds at least one  *)
(* tool call, none of them complete_task, and no request fails, the run ends *)
(* after exactly N requests with the compute-limit report and status 0.      *)
C1_AsStated ==
    (AgentFinished /\ maxComputeLoops >= 1 /\ EveryReplyCallsTools /\ NoRequestFailed)
        => CapReached

(* C1, amended: the same, for replies whose tool calls all name one of the   *)
(* seven tools of the agent; and no run sends more requests than the cap.    *)
C1_CapReached ==
    /\ (AgentFinished /\ maxComputeLoops >= 1 /\ EveryReplyCallsTools
           /\ EveryCallNamesATool /\ NoRequestFailed)
        => CapReached
    /\ (comp = "agent" /\ pc \notin {"start", "parseArgs", "runAgent"}
           /\ maxComputeLoops >= 1 /\ apiKey)
        => Len(sent) <= maxComputeLoops

(* a run with cap 2 that made two requests, each answered with tool calls,   *)
(* one of the replies holding two of them                                    *)
C1_Witness ==
    /\ AgentFinished /\ maxComputeLoops = 2 /\ Len(sent) = 2
    /\ EveryReplyCallsTools /\ EveryCallNamesATool /\ NoRequestFailed
    /\ \E i \in AssistantTurns : Len(ToolUsesOf(messages[i].content)) = 2

(* the tool_result blocks of message i of a conversation that answer id *)
ResultsFor(msgs, i, id) ==
    IF i > Len(msgs) \/ msgs[i].role # "user" THEN {}
    ELSE {k \in DOMAIN msgs[i].content :
             /\ msgs[i].content[k].type = "tool_result"
             /\ msgs[i].content[k].tool_use_id = id}

(* every tool_use of every assistant turn of a conversation is answered by   *)
(* exactly one tool_result of the same id in the message right after it      *)
Answered(msgs) ==
    \A i \in DOMAIN msgs :
        msgs[i].role = "assistant" =>
            \A b \in DOMAIN msgs[i].content :
                msgs[i].content[b].type = "tool_use" =>
                    Cardinality(ResultsFor(msgs, i + 1, msgs[i].content[b].id)) = 1

(* C3: in every conversation the agent sends, each tool_use of each          *)
(* assistant turn is answered by exactly one tool_result with its id in the  *)
(* user turn immediately following that assistant turn.                      *)
C3_ToolUsesAnswered ==
    comp = "agent" => \A s \in DOMAIN sent : Answered(sent[s].messages)

-----------------------------------------------------------------------------
(* Properties of the reasoning budget and max-tokens                         *)

BudgetComponents ==
    {"extended_thinking", "et_streaming", "et_tool_use", "extended_output", "agent"}

(* max(requested, 1024) *)
EffectiveBudget == IF argv.thinkingBudget < 1024 THEN 1024 ELSE argv.thinkingBudget

BudgetWarned ==
    Printed("Warning: Minimum thinking budget is 1024 tokens. Setting to 1024.")

RaisingComponents == {"extended_thinking", "et_streaming", "et_tool_use"}

-----------------------------------------------------------------------------
(* Properties of the exit status                                             *)

ErrorTexts ==
    { "Error:",
      "Error: ANTHROPIC_API_KEY environment variable not set",
      "Error: --prompt argument is required",
      "error: required option '--prompt <prompt>' not specified" }

ErrorPrinted == \E i \in DOMAIN out : out[i].lit \in ErrorTexts

(* the two demonstrations take no prompt and run without the credential *)
Demonstrations == {"mcp_local", "fetch_demo"}

MissingCredential == comp \notin Demonstrations /\ ~apiKey

MissingArgument == comp \notin Demonstrations /\ argv.prompt = None

(* a request of the component's own flow was rejected; a rejected nested     *)
(* clothing request is recovered from                                        *)
RequestFailed == failures \cap {"main", "runAgent"} # {}

(* response.content[0].text of a reply without content *)
NoContentCrash ==
    /\ comp \in {"simple_prompt", "structured_output"}
    /\ sent # <<>> /\ failures = {} /\ response = <<>>

(* the progress bar of Extended Output could not be drawn *)
ProgressBarCrash ==
    /\ comp = "extended_output" /\ sent # <<>>
    /\ \/ createProgressBar(Percentage(thinkingTokens, thinkingBudget), 20).throws
       \/ createProgressBar(Percentage(responseTokens, maxTokens), 20).throws

-----------------------------------------------------------------------------
(* Properties of the streaming accumulators                                  *)

(* the fragments of the deltas of one kind among the events, joined in order *)
RECURSIVE Fragments(_, _)
Fragments(evs, delta) ==
    IF evs = <<>> THEN <<>>
    ELSE Fragments(SubSeq(evs, 1, Len(evs) - 1), delta)
         \o (IF evs[Len(evs)].type = "content_block_delta"
                /\ evs[Len(evs)].delta = delta
             THEN evs[Len(evs)].text
             ELSE <<>>)

(* C19: in the Extended Thinking + Streaming CLI, after every sequence of    *)
(* events the reasoning accumulator is the concatenation, in order, of the   *)
(* fragments of the thinking_delta events and the answer accumulator that    *)
(* of the text_delta events; so a delta changes only its own accumulator     *)
(* and an event that is no delta changes neither.                            *)
C19_AccumulatorsConcatenate ==
    comp = "et_streaming" =>
        /\ thinkingContent = Fragments(events, "thinking_delta")
        /\ responseContent = Fragments(events, "text_delta")

(* a thinking fragment, an answer fragment and a second thinking fragment    *)
(* have arrived                                                              *)
C19_Witness ==
    /\ comp = "et_streaming" /\ Len(events) = 3
    /\ events[1].delta = "thinking_delta" /\ events[1].text = LongerFragment
    /\ events[2].delta = "text_delta" /\ events[2].text = Fragment
    /\ events[3].delta = "thinking_delta" /\ events[3].text = Fragment
    /\ thinkingContent = <<"h", "e", "l", "l", "o", "a">>
    /\ responseContent = <<"a">>

(* a streaming CLI has consumed its stream and printed the summary *)
StreamReported ==
    /\ comp \in {"et_streaming", "extended_output"}
    /\ pc = "exited" /\ exitCode = 0
    /\ out # <<>> /\ out[Len(out)].lit = "Token Usage Summary"

(* the output and thinking counts of the summary table *)
ReportedResponseTokens == out[Len(out)].nums[2]

ReportedThinkingTokens == out[Len(out)].nums[3]

(* C20: in the streaming CLIs the reasoning and answer token counts reported *)
(* after the stream equal the estimator, ceil(length / 4), applied to the    *)
(* fully accumulated texts, however the text was split into fragments.       *)
C20_CountsMatchEstimator ==
    StreamReported =>
        /\ ReportedThinkingTokens = estimateTokens(thinkingContent)
        /\ ReportedResponseTokens = estimateTokens(responseContent)
-----------------------------------------------------------------------------
(* Properties of the Structured Output CLI                                   *)

StructuredAnswered ==
    comp = "structured_output" /\ pc = "exited" /\ trace # <<>>

ReplyText == response[1].text

(* the reply is JSON for a value with a sentiment of the three, a list of    *)
(* key issues and a list of action items that are objects with team and task *)
WellFormedFeedback(text) ==
    /\ text \in DOMAIN JsonTable
    /\ LET v == JsonTable[text]
       IN /\ v.t = "object"
          /\ {"sentiment", "key_issues", "action_items"} \subseteq DOMAIN v.v
          /\ v.v["sentiment"].t = "string"
          /\ v.v["sentiment"].v \in {"positive", "negative", "neutral"}
          /\ v.v["key_issues"].t = "array"
          /\ v.v["action_items"].t = "array"
          /\ \A i \in 1..Len(v.v["action_items"].v) :
               /\ v.v["action_items"].v[i].t = "object"
               /\ {"team", "task"} \subseteq DOMAIN v.v["action_items"].v[i].v

(* C8: a reply is accepted as valid exactly when it parses as JSON to a      *)
(* value whose sentiment is positive, negative or neutral, whose key_issues  *)
(* is a list and whose action_items is a list of objects each containing     *)
(* team and task.                                                            *)
C8_AcceptedIffWellFormed ==
    StructuredAnswered =>
        (trace[Len(trace)] = "validated" <=> WellFormedFeedback(ReplyText))

(* a reply accepted with no key issue and one item, whose team is null *)
C8_Witness ==
    /\ StructuredAnswered
    /\ trace[Len(trace)] = "validated"
    /\ JsonTable[ReplyText].v["key_issues"].v = <<>>
    /\ Len(JsonTable[ReplyText].v["action_items"].v) = 1

StructuredShown ==
    Printed("Customer Feedback Analysis") /\ Printed("Structured JSON Response")

RawShown == Printed("Raw Response (Invalid JSON)")

(* C9: after a text reply the run follows one of the three paths, the one    *)
(* the reply calls for; the structured display is shown only on the          *)
(* validated path, the raw text only on the two others, and on all three a   *)
(* token summary is printed and the process ends with status 0.              *)
C9_OnePathWithSummary ==
    StructuredAnswered =>
        /\ trace \in {<<"received", "parsed", "validated">>,
                      <<"received", "parse-failed">>,
                      <<"received", "parsed", "validation-failed">>}
        /\ (trace[2] = "parse-failed") <=> (ReplyText \in NotJson)
        /\ StructuredShown <=> (trace[Len(trace)] = "validated")
        /\ RawShown <=> (trace[Len(trace)] # "validated")
        /\ Cardinality({i \in DOMAIN out : out[i].lit = "Token Usage Summary"}) = 1
        /\ ~Printed("Error:")
        /\ exitCode = 0

(* a reply that parsed and was rejected by the validation *)
C9_Witness ==
    /\ StructuredAnswered
    /\ trace = <<"received", "parsed", "validation-failed">>
    /\ RawShown
    /\ exitCode = 0

-----------------------------------------------------------------------------
(* Properties of the agent tools                                             *)

(* a tool has run *)
ToolRan == lastRun # None

RanTool == lastRun[1].tool

RanInput == lastRun[1].tool.input

RanOutput == lastRun[1].output

Failed == RanOutput.error # None

Succeeded == RanOutput.result # None

(* the latest message is the tool_result that answers the tool call *)
ResultAppended ==
    /\ messages[Len(messages)].role = "user"
    /\ messages[Len(messages)].content =
           <<ToolResultBlock(RanTool.id, ResultText(RanOutput))>>

(* C13: each of the seven tools, on every input, fields missing or not,      *)
(* returns either a success payload or an error message, never both and      *)
(* never neither, and raises nothing to the loop: the loop goes on with the  *)
(* tool_result appended and its catch has not run.                           *)
C13_OneOfResultOrError ==
    ToolRan =>
        /\ Failed # Succeeded
        /\ ResultAppended
        /\ pc = "loop"
        /\ ~Printed("Error in API call:")

(* insert_line without a path and without a line number has failed *)
C13_Witness ==
    /\ ToolRan /\ RanTool.name = "insert_line"
    /\ RanInput.path = None /\ RanInput.insert_line = None
    /\ Failed /\ ~Succeeded
    /\ pc = "loop"

RanBefore == lastRun[1].before

(* the path of the call is absent, empty or blank *)
EmptyPath == RanInput.path = None \/ Trim(RanInput.path[1]) = <<>>

RanPath == ReplaceFirst(RanInput.path[1], rootPathToReplaceWithCwd, cwd)

MissingFile == ~EmptyPath /\ ~existsSync(RanBefore, RanPath)

ExistingFile == ~EmptyPath /\ IsFile(RanBefore, RanPath)

(* the number of pieces the file falls into at its newlines *)
LineCount == Len(Split(readFileSync(RanBefore, RanPath), "\n"))

AbsentOrEmpty(field) == field = None \/ field = Some(<<>>)

OutOfRange ==
    \/ RanInput.insert_line = None
    \/ ExistingFile /\ (RanInput.insert_line[1] < 0 \/ RanInput.insert_line[1] > LineCount)

(* the reasons for which view_file, str_replace and insert_line fail *)
FailureCause ==
    \/ EmptyPath
    \/ MissingFile
    \/ RanTool.name = "str_replace" /\ AbsentOrEmpty(RanInput.old_str)
    \/ RanTool.name = "str_replace" /\ ExistingFile
          /\ ~Includes(readFileSync(RanBefore, RanPath), RanInput.old_str[1])
    \/ RanTool.name = "insert_line" /\ OutOfRange
    \/ RanTool.name = "insert_line" /\ AbsentOrEmpty(RanInput.new_str)

(* C14: a call of view_file, str_replace or insert_line that fails (empty    *)
(* path, missing file, empty old_str, old_str not in the file, insert_line   *)
(* absent or out of range, empty new_str) leaves the file system as it was,  *)
(* each of these reasons makes the call fail, and view_file with an empty    *)
(* path fails before it calls into the file system.                          *)
C14_FailureLeavesFiles ==
    (ToolRan /\ RanTool.name \in {"view_file", "str_replace", "insert_line"}) =>
        /\ Failed => fs = RanBefore
        /\ FailureCause => Failed
        /\ (RanTool.name = "view_file" /\ EmptyPath) => ~lastRun[1].touched

(* str_replace did not find old_str in the file, and the file is as it was *)
C14_Witness ==
    /\ ToolRan /\ RanTool.name = "str_replace" /\ ExistingFile
    /\ RanInput.old_str = Some(<<"k">>)
    /\ Failed /\ fs = RanBefore
    /\ lastRun[1].touched

(* insert_line has run on an existing file with a new_str that is not empty *)
InsertCase ==
    /\ ToolRan /\ RanTool.name = "insert_line"
    /\ ExistingFile /\ ~AbsentOrEmpty(RanInput.new_str)

(* the error names the range 0-LineCount *)
CitesRange ==
    LET nums == RanOutput.error[1].nums
    IN Len(nums) = 2 /\ nums[2] = LineCount

(* the file holds the old lines with new_str between line insert_line and    *)
(* the next, and nothing else has changed                                    *)
Inserted ==
    LET lines == Split(readFileSync(RanBefore, RanPath), "\n")
        i == RanInput.insert_line[1]
    IN /\ Split(readFileSync(fs, RanPath), "\n") =
              SubSeq(lines, 1, i) \o Split(RanInput.new_str[1], "\n")
                  \o SubSeq(lines, i + 1, Len(lines))
       /\ DOMAIN fs.files = DOMAIN RanBefore.files
       /\ \A q \in DOMAIN fs.files :
              q # Abs(RanPath) => fs.files[q] = RanBefore.files[q]
       /\ fs.dirs = RanBefore.dirs

CreateCase ==
    /\ ToolRan /\ RanTool.name = "create_file"
    /\ ~EmptyPath /\ DirPart(RanInput.path[1]) # <<>>
    /\ ~IsDir(RanBefore, RanPath)
    /\ \A a \in Ancestors(ParentOf(RanPath)) : a \notin DOMAIN RanBefore.files

WrittenText ==
    IF AbsentOrEmpty(RanInput.file_text) THEN <<>> ELSE RanInput.file_text[1]

(* C16: create_file with a path that is not empty and has a directory part   *)
(* creates the missing parent directories of the resolved path, writes       *)
(* file_text (empty when absent) there, over an existing file too, and       *)
(* returns success.                                                          *)
C16_CreatesAtResolvedPath ==
    CreateCase =>
        /\ Succeeded
        /\ Ancestors(ParentOf(RanPath)) \subseteq fs.dirs
        /\ IsFile(fs, RanPath)
        /\ readFileSync(fs, RanPath) = WrittenText
-----------------------------------------------------------------------------
(* Properties of the agent loop around the tools                             *)

CompleteTaskRan == comp = "agent" /\ ToolRan /\ RanTool.name = "complete_task"

NoReasoning == RanInput.reasoning = None \/ RanInput.reasoning = Some("")

(* the run stopped at the tool call run last: its tool_result is the latest  *)
(* message, and the latest request was sent before the reply that holds it   *)
StoppedAtRanTool ==
    /\ ResultAppended
    /\ Len(sent[Len(sent)].messages) <= Len(messages) - 2
    /\ Len(sent) = computeIterations

(* complete_task without reasoning: a failed result, no termination signal *)
RefusedCompletionGoesOn ==
    (CompleteTaskRan /\ NoReasoning) => (Failed /\ ~isTaskComplete)

(* complete_task with reasoning: the flag is set and nothing follows *)
CompletionStops ==
    /\ (CompleteTaskRan /\ ~NoReasoning) => (Succeeded /\ isTaskComplete)
    /\ (comp = "agent" /\ isTaskComplete) => (CompleteTaskRan /\ StoppedAtRanTool)

(* C17: complete_task without a reasoning string yields a failed tool result *)
(* and does not signal termination; with a reasoning string it sets the      *)
(* completion flag, no later tool call of the reply is processed and no      *)
(* further request is sent.                                                  *)
C17_CompleteTask == RefusedCompletionGoesOn /\ CompletionStops

(* the tool_use at position j of message k names none of the seven tools *)
UnknownToolUse(k, j) ==
    /\ messages[k].role = "assistant"
    /\ j \in DOMAIN messages[k].content
    /\ messages[k].content[j].type = "tool_use"
    /\ messages[k].content[j].name \notin ToolNames

(* some message holds a tool_result for the tool_use with this id *)
HasResult(id) ==
    \E m \in DOMAIN messages :
        /\ messages[m].role = "user"
        /\ \E b \in DOMAIN messages[m].content :
               /\ messages[m].content[b].type = "tool_result"
               /\ messages[m].content[b].tool_use_id = id

(* C18: when a reply holds a tool_use whose name is none of the seven tools, *)
(* the loop is aborted: no tool_result is appended for that tool_use, no     *)
(* later tool call of the reply is executed, and no further request is sent. *)
C18_UnknownToolAborts ==
    comp = "agent" =>
        \A k \in DOMAIN messages : \A j \in 1..3 :
            UnknownToolUse(k, j) =>
                /\ ~HasResult(messages[k].content[j].id)
                /\ \A later \in (j + 1)..Len(messages[k].content) :
                       messages[k].content[later].type = "tool_use" =>
                           ~HasResult(messages[k].content[later].id)
                /\ \A s \in DOMAIN sent : Len(sent[s].messages) < k
-----------------------------------------------------------------------------
(* Properties of the tool-use demonstrations                                 *)

(* where the tool_result blocks of a conversation are: message, position *)
ToolResultsIn(msgs) ==
    {p \in (DOMAIN msgs) \X (1..3) :
        /\ p[2] \in DOMAIN msgs[p[1]].content
        /\ msgs[p[1]].content[p[2]].type = "tool_result"}

(* C4: in Simple Tool Use, whenever the first reply holds a get_weather      *)
(* tool_use, the Weather Lookup Utility is called exactly once, with the     *)
(* location of that tool_use, and the second request holds exactly one       *)
(* tool_result, whose tool_use_id is the identifier of that tool_use.        *)
C4_OneCallOneResult ==
    (comp = "simple_tool_use" /\ Len(sent) >= 2) =>
        \A b \in DOMAIN response :
            (response[b].type = "tool_use" /\ response[b].name = "get_weather") =>
                /\ Len(weatherCalls) = 1
                /\ ~FalsyStr(response[b].input.location) =>
                       weatherCalls[1].location = response[b].input.location[1]
                /\ Cardinality(ToolResultsIn(sent[2].messages)) = 1
                /\ \A p \in ToolResultsIn(sent[2].messages) :
                       sent[2].messages[p[1]].content[p[2]].tool_use_id = response[b].id

(* the follow-up requests of a run: those that carry more than the prompt *)
FollowUps == {s \in DOMAIN sent : sent[s].by = "main" /\ Len(sent[s].messages) > 1}

(* C5: in the follow-up requests of Simple Tool Use, Extended Thinking +     *)
(* Tool Use and the Hosted Fetch demonstration, every tool_use of an         *)
(* assistant turn is answered by exactly one tool_result of the same         *)
(* identifier in the next user turn, however many tool_use blocks the reply  *)
(* held.                                                                     *)
C5_FollowUpsAnswered ==
    comp \in {"simple_tool_use", "et_tool_use", "fetch_demo"} =>
        \A s \in FollowUps : Answered(sent[s].messages)

-----------------------------------------------------------------------------
(* Properties of the Weather Lookup Utility                                  *)

(* the service answered the last call with current conditions *)
WeatherFetched ==
    /\ weatherCalls # <<>> /\ weatherData # None
    /\ weatherCalls[Len(weatherCalls)].answer.geo = "found"
    /\ weatherCalls[Len(weatherCalls)].answer.ok

LastAnswer == weatherCalls[Len(weatherCalls)].answer

LastCode == IF LastAnswer.code = None THEN 0 ELSE LastAnswer.code[1]

HasAlert(alert) ==
    \E i \in DOMAIN weatherData[1].alerts[1] : weatherData[1].alerts[1][i] = alert

ConditionFromTable ==
    /\ LastCode \in DOMAIN weatherCodes => weatherData[1].condition = weatherCodes[LastCode]
    /\ LastCode \notin DOMAIN weatherCodes => weatherData[1].condition = "Unknown"
    /\ LastAnswer.code = None => weatherData[1].condition = "Clear sky"
    /\ LastCode = 12 => weatherData[1].condition = "Unknown"
    /\ LastCode = 67 => weatherData[1].condition = "Heavy freezing rain"

BothAlertsAt67 ==
    (comp = "mcp_local" /\ LastCode = 67) =>
        HasAlert("Heavy Rain Warning") /\ HasAlert("Freezing Precipitation Warning")

(* C10, as stated: the condition is the table entry of the code, "Unknown"   *)
(* for a code that is not in the table and "Clear sky" for an absent code;   *)
(* code 67 yields both the heavy rain and the freezing precipitation         *)
(* warning; every code that is not in the table yields no alerts.            *)
C10_AsStated ==
    WeatherFetched =>
        /\ ConditionFromTable
        /\ BothAlertsAt67
        /\ (comp = "mcp_local" /\ LastCode \notin DOMAIN weatherCodes) =>
               weatherData[1].alerts = Some(<<>>)

(* C10, amended: the same, with no alerts for every code below 95 that is    *)
(* not in the table.                                                         *)
C10_ConditionAndAlerts ==
    WeatherFetched =>
        /\ ConditionFromTable
        /\ BothAlertsAt67
        /\ (comp = "mcp_local" /\ LastCode \notin DOMAIN weatherCodes /\ LastCode < 95) =>
               weatherData[1].alerts = Some(<<>>)

(* the client demonstration got code 12: "Unknown", no alerts *)
C10_Witness ==
    /\ comp = "mcp_local" /\ pc = "exited" /\ WeatherFetched
    /\ LastAnswer.code = Some(12)
    /\ weatherData[1].condition = "Unknown"
    /\ weatherData[1].alerts = Some(<<>>)


(* getWeather has returned from its latest call *)
WeatherReturned == weatherCalls # <<>> /\ weatherData # None

NotSuccess(status) == status # 0 /\ status \notin 200..299

(* the latest call met a network failure, a response that is not 2xx or a    *)
(* body that is not JSON, at the geocoding or at the conditions step         *)
ServiceFailed ==
    \/ LastAnswer.geo = "error"
    \/ NotSuccess(LastAnswer.geoStatus)
    \/ LastAnswer.geo = "found" /\ ~LastAnswer.ok
    \/ LastAnswer.geo = "found" /\ NotSuccess(LastAnswer.wxStatus)

ErrorSentinel ==
    /\ weatherData[1].temperature = Str("Error")
    /\ weatherData[1].condition = "Service unavailable"
    /\ comp = "mcp_local" =>
           weatherData[1].alerts = Some(<<"Weather service unavailable">>)

(* C11: every network failure, response that is not 2xx and body that is     *)
(* not JSON, at the geocoding or at the conditions step, makes getWeather    *)
(* return the sentinel: temperature "Error", condition "Service              *)
(* unavailable" and, in the Local MCP Server, the one alert "Weather         *)
(* service unavailable".                                                     *)
C11_FailureYieldsSentinel == (WeatherReturned /\ ServiceFailed) => ErrorSentinel


LastUrls == weatherCalls[Len(weatherCalls)].urls

NotFoundSentinel ==
    /\ weatherData[1].temperature = Str("Unknown")
    /\ weatherData[1].condition = "Location not found"
    /\ weatherData[1].humidity = T("Unknown")
    /\ comp = "mcp_local" => weatherData[1].alerts = Some(<<>>)

(* C12: when the geocoding body carries no results, absent or empty,         *)
(* getWeather returns temperature "Unknown", condition "Location not        *)
(* found", humidity "Unknown" and, in the Local MCP Server, an empty alert   *)
(* list, and the conditions endpoint has not been fetched.                   *)
C12_NoResultsSentinel ==
    (WeatherReturned /\ LastAnswer.geo = "none") =>
        /\ NotFoundSentinel
        /\ LastUrls = <<"geocoding">>

(* the client demonstration asked for Paris and geocoding found nothing *)
C12_Witness ==
    /\ comp = "mcp_local" /\ pc = "exited" /\ WeatherReturned
    /\ LastAnswer.geo = "none" /\ LastAnswer.geoStatus = 200
    /\ weatherData[1].condition = "Location not found"
    /\ weatherData[1].alerts = Some(<<>>)
    /\ LastUrls = <<"geocoding">>
-----------------------------------------------------------------------------
(* Properties of the token estimator and of the progress bar                 *)

(* the Simple Prompt CLI has printed its token table *)
SimpleReported ==
    /\ comp = "simple_prompt" /\ pc = "exited" /\ exitCode = 0
    /\ response # <<>>
    /\ out[Len(out)].lit = "Token Usage Summary"

(* n is length / 4 rounded up *)
CeilOfQuarter(n, length) == 4 * n >= length /\ 4 * (n - 1) < length

(* C21: estimateTokens depends on the length of the text alone and is        *)
(* length / 4 rounded up: 0 for the empty string, 1 for four characters, 2   *)
(* for five; and the estimate of a text followed by another is never less    *)
(* than the estimate of the first.                                           *)
C21_EstimateIsCeilOfQuarter ==
    SimpleReported =>
        LET a == argv.prompt[1]
            b == response[1].text
            counts == out[Len(out)].nums
        IN /\ CeilOfQuarter(counts[1], Len(a))
           /\ CeilOfQuarter(counts[2], Len(b))
           /\ Len(a) = 0 => counts[1] = 0
           /\ Len(b) = 0 => counts[2] = 0
           /\ Len(b) = 4 => counts[2] = 1
           /\ Len(b) = 5 => counts[2] = 2
           /\ estimateTokens(a \o b) >= counts[1]
           /\ estimateTokens(b \o a) >= counts[2]

(* the empty prompt was estimated at 0 and the reply "abcde" at 2 *)
C21_Witness ==
    /\ SimpleReported
    /\ argv.prompt = Some("") /\ response[1].text = "abcde"
    /\ out[Len(out)].nums = <<0, 2, 2>>

LastEvent == events[Len(events)]

(* the Extended Output CLI has just built a progress bar: the event consumed *)
(* last is a reasoning or an answer fragment                                 *)
BarBuilt ==
    /\ comp = "extended_output" /\ events # <<>>
    /\ LastEvent.type = "content_block_delta"
    /\ LastEvent.delta \in {"thinking_delta", "text_delta"}

(* round(tokens / of x 100) *)
RoundedPercentage(tokens, of) ==
    CHOOSE p \in 0..(100 * tokens + 1) :
        /\ 2 * of * p <= 200 * tokens + of
        /\ 200 * tokens + of < 2 * of * (p + 1)

LastPercentage ==
    IF LastEvent.delta = "thinking_delta"
    THEN RoundedPercentage(thinkingTokens, thinkingBudget)
    ELSE RoundedPercentage(responseTokens, maxTokens)

(* the bar of the line printed last: filled and empty characters *)
PrintedBar == out[Len(out)].nums

(* C22: in the Extended Output CLI every progress bar is 20 characters long, *)
(* floor(percentage / 5) filled ones followed by empty ones, for every       *)
(* percentage = round(tokens so far / budget x 100) that can arise, also     *)
(* when the tokens so far exceed the budget or max-tokens: building the bar  *)
(* never fails, and a bar that is printed has that shape.                    *)
C22_BarIsTwentyLong ==
    (BarBuilt /\ failures = {}) =>
        /\ ~(pc = "exited" /\ exitCode = 1)
        /\ out[Len(out)].lit \in {"Thinking Progress:", "Response Progress:"} =>
               /\ PrintedBar[1] = LastPercentage \div 5
               /\ PrintedBar[1] >= 0 /\ PrintedBar[2] >= 0
               /\ PrintedBar[1] + PrintedBar[2] = 20
-----------------------------------------------------------------------------
(* Properties of Extended Thinking + Tool Use                                *)

(* the tool_use main looks at in the first and in the second reply *)
Turn1Tool == Find(response, "tool_use")

Turn2Tool == Find(continuation, "tool_use")

Undeclared(toolUse) == toolUse # None /\ toolUse[1].name \notin EtTools

NotImplementedReported == Printed("not implemented in this example")

(* C24: in every turn a tool_use that names neither get_weather nor          *)
(* get_clothing_recommendation is reported as "not implemented" and no       *)
(* further request is sent; a tool_use that names one of the two is never    *)
(* reported as not implemented.                                              *)
C24_OnlyUndeclaredNotImplemented ==
    comp = "et_tool_use" =>
        /\ Undeclared(Turn1Tool) => (NotImplementedReported /\ Len(sent) = 1)
        /\ Undeclared(Turn2Tool) => (NotImplementedReported /\ Len(sent) = 2)
        /\ NotImplementedReported => (Undeclared(Turn1Tool) \/ Undeclared(Turn2Tool))

OfType(content, type) == SelectSeq(content, LAMBDA b : b.type = type)

(* the assistant turn the claim describes for the first reply *)
ReasoningThenWeather ==
    LET reasoning == OfType(response, "thinking")
        toolUses == OfType(response, "tool_use")
    IN (IF reasoning # <<>> THEN <<reasoning[1]>> ELSE <<>>) \o <<toolUses[1]>>

SecondRequestCarriesExchange ==
    LET req == sent[2]
        weatherUse == OfType(response, "tool_use")[1]
    IN /\ req.by = "main"
       /\ weatherUse.name = "get_weather"
       /\ weatherData # None
       /\ req.messages = <<sent[1].messages[1],
                           Message("assistant", ReasoningThenWeather),
                           Message("user", <<ToolResultBlock(weatherUse.id,
                                                 WeatherText(weatherData[1]))>>)>>
       /\ sent[1].messages[1] = Message("user", <<TextBlock(argv.prompt[1])>>)
       /\ req.tools = {"get_weather", "get_clothing_recommendation"}

ThirdRequestCarriesBoth ==
    LET req == sent[4]
        secondUse == OfType(continuation, "tool_use")[1]
    IN /\ req.by = "main"
       /\ sent[3].by = "getClothingRecommendation"
       /\ clothingRec # None
       /\ req.messages = sent[2].messages
                         \o <<Message("assistant", continuation),
                              Message("user", <<ToolResultBlock(secondUse.id,
                                                    clothingRec[1])>>)>>
       /\ req.tools = {"get_weather", "get_clothing_recommendation"}

(* C25: the second request carries the prompt, the assistant turn made of    *)
(* the first reply's reasoning block (when there is one) and its get_weather *)
(* tool_use, and the weather tool_result; the third request carries those    *)
(* three messages, the whole second reply and a tool_result with the second  *)
(* tool_use's id and the recommendation text; both declare both tools; the   *)
(* third is sent only after the nested recommendation request has returned.  *)
C25_RequestsCarryTheExchange ==
    comp = "et_tool_use" =>
        /\ Len(sent) >= 2 => SecondRequestCarriesExchange
        /\ Len(sent) = 3 => (sent[3].by = "getClothingRecommendation"
                             /\ (clothingRec = None <=> pc = "awaitNested"))
        /\ Len(sent) >= 4 => ThirdRequestCarriesBoth
        /\ Len(sent) <= 4

C25_Witness ==
    /\ comp = "et_tool_use" /\ Len(sent) = 4
    /\ OfType(response, "thinking") # <<>>
    /\ Len(sent[2].messages[2].content) = 2
    /\ Len(sent[4].messages) = 5
    /\ Len(continuation) = 2
-----------------------------------------------------------------------------
(* Properties of the agent loop                                              *)

(* a request of the agent loop was rejected *)
ApiFailed == comp = "agent" /\ "runAgent" \in failures

CapReport == Printed("Reached compute limit without completing task.")

(* the loop is over, the rejected request is the last one sent and nothing   *)
(* was appended to the conversation after it                                 *)
LoopEndedAtFailure ==
    /\ Printed("Error in API call:")
    /\ pc \in {"after", "exited"}
    /\ Len(sent) = computeIterations
    /\ sent[Len(sent)].messages = messages
    /\ ~isTaskComplete
    /\ pc = "exited" => exitCode = 0

ReplyThenResults(tail, done) ==
    /\ Len(tail) = 1 + done
    /\ tail[1].role = "assistant"
    /\ done <= Len(ToolUsesOf(tail[1].content))
    /\ \A j \in 1..done :
         /\ tail[1 + j].role = "user"
         /\ Len(tail[1 + j].content) = 1
         /\ tail[1 + j].content[1].type = "tool_result"
         /\ tail[1 + j].content[1].tool_use_id = ToolUsesOf(tail[1].content)[j].id

After(was, now) == SubSeq(now, Len(was) + 1, Len(now))

(* C26: the tool calls of a reply run one at a time in the reply's order,    *)
(* each tool_result is appended before the next call starts, and the next    *)
(* request is sent only when every tool call of the previous reply has run   *)
(* and its tool_result is in the conversation.                               *)
C26_ToolCallsInOrder ==
    (comp = "agent" /\ sent # <<>>) =>
        /\ \A n \in 2..Len(sent) :
             LET tail == After(sent[n - 1].messages, sent[n].messages)
             IN /\ SubSeq(sent[n].messages, 1, Len(sent[n - 1].messages))
                     = sent[n - 1].messages
                /\ tail # <<>>
                /\ ReplyThenResults(tail, Len(ToolUsesOf(tail[1].content)))
        /\ LET tail == After(sent[Len(sent)].messages, messages)
               done == Len(tail) - 1
           IN tail # <<>> =>
                /\ tail[1] = Message("assistant", response)
                /\ ReplyThenResults(tail, done)
                /\ pc = "tools" => toolIdx = done + 1
                /\ done >= 1 =>
                     /\ lastRun # None
                     /\ lastRun[1].tool = ToolUsesOf(response)[done]
                     /\ tail[1 + done].content[1].content = ResultText(lastRun[1].output)

C26_Witness ==
    /\ comp = "agent" /\ Len(sent) = 2
    /\ Len(ToolUsesOf(response)) = 2
    /\ Len(sent[2].messages) = Len(sent[1].messages) + 3
    /\ Len(messages) = Len(sent[2].messages) + 2
    /\ pc = "tools" /\ toolIdx = 2

(* the tool_results in the conversation that report a restart *)
Restarts ==
    {i \in DOMAIN messages :
        /\ messages[i].role = "user"
        /\ messages[i].content[1].type = "tool_result"
        /\ messages[i].content[1].content = T("Bash session restarted.")}

RestartRan == RanTool.name = "restart_bash" /\ Succeeded

(* C27: only a successful restart_bash changes the shell-environment         *)
(* snapshot, and it replaces it by a new copy of the process environment;    *)
(* every other tool call, an execute_bash and a restart_bash refused for     *)
(* want of reasoning included, leaves it as it was; an execute_bash runs its *)
(* command with the snapshot current when it is called.                      *)
C27_SnapshotChangesOnRestartOnly ==
    comp = "agent" =>
        /\ currentBashEnv.vars = "process.env"
        /\ currentBashEnv.copy = Cardinality(Restarts)
        /\ ToolRan =>
             /\ RestartRan =>
                  /\ currentBashEnv # lastRun[1].envBefore
                  /\ currentBashEnv.copy = lastRun[1].envBefore.copy + 1
             /\ ~RestartRan => currentBashEnv = lastRun[1].envBefore
             /\ (RanTool.name = "execute_bash" /\ ~PathIsEmpty(RanInput.command)) =>
                  /\ lastRun[1].exec # None
                  /\ lastRun[1].exec[1].env = lastRun[1].envBefore
             /\ RanTool.name # "execute_bash" => lastRun[1].exec = None

(* an execute_bash that ran after a restart, and a refused restart before it *)
C27_Witness ==
    /\ comp = "agent" /\ ToolRan
    /\ RanTool.name = "execute_bash"
    /\ lastRun[1].exec # None
    /\ lastRun[1].exec[1].env = [vars |-> "process.env", copy |-> 1]
    /\ currentBashEnv.copy = 1
    /\ \E i \in DOMAIN messages :
         /\ messages[i].role = "user"
         /\ messages[i].content[1].type = "tool_result"
         /\ messages[i].content[1].content =
                T("No reasoning provided for restarting bash session.")

CounterCountsRequests == computeIterations = Len(sent)

NonPositiveCapSendsNothing ==
    (AgentFinished /\ argv.compute <= 0) => (sent = <<>> /\ CapReport)

(* C28, as stated: whatever the replies and the cap, the iteration counter   *)
(* equals the number of requests sent so far and never exceeds the cap; with *)
(* a cap of 0 or less no request is sent and the compute limit is reported.  *)
C28_AsStated ==
    comp = "agent" =>
        /\ CounterCountsRequests
        /\ computeIterations <= argv.compute
        /\ NonPositiveCapSendsNothing

(* C28, amended: the same, the counter never exceeding the cap when the cap  *)
(* is 0 or more and staying 0 when the cap is negative.                      *)
C28_CounterWithinCap ==
    comp = "agent" =>
        /\ CounterCountsRequests
        /\ argv.compute >= 0 => computeIterations <= argv.compute
        /\ argv.compute < 0 => computeIterations = 0
        /\ NonPositiveCapSendsNothing

C28_Witness ==
    /\ AgentFinished /\ argv.compute = -1
    /\ computeIterations = 0 /\ sent = <<>> /\ CapReport

(* the agent prompt with the request where the template has its placeholder *)
PromptEmbedding(request) ==
    "<purpose/><user-request>" \o request \o "</user-request>"

IsPrefixOf(s, t) == Len(s) <= Len(t) /\ SubSeq(t, 1, Len(s)) = s

(* C29: the conversation only grows by appending, its first message is the   *)
(* user-role agent prompt with the user's request in it, and the last        *)
(* message of every conversation sent has role user.                         *)
C29_ConversationAppendOnly ==
    comp = "agent" =>
        /\ messages # <<>> =>
             messages[1] = Message("user", <<TextBlock(PromptEmbedding(argv.prompt[1]))>>)
        /\ \A s \in DOMAIN sent :
             /\ IsPrefixOf(sent[s].messages, messages)
             /\ sent[s].messages[Len(sent[s].messages)].role = "user"
             /\ \A r \in 1..s : IsPrefixOf(sent[r].messages, sent[s].messages)
-----------------------------------------------------------------------------
(* The /repo placeholder                                                     *)

Placeholder == <<"/", "r", "e", "p", "o">>

PlaceholderAt(s, i) ==
    i + 4 <= Len(s) /\ SubSeq(s, i, i + 4) = Placeholder

Occurrences(s) == {i \in 1..Len(s) : PlaceholderAt(s, i)}

(* r is s with its first placeholder, and no other, turned into the working  *)
(* directory; s itself when it has none                                      *)
FirstOnly(s, r) ==
    IF Occurrences(s) = {} THEN r = s
    ELSE \E i \in Occurrences(s) :
           /\ \A j \in Occurrences(s) : i <= j
           /\ r = SubSeq(s, 1, i - 1) \o <<"/", "w">> \o SubSeq(s, i + 5, Len(s))

PathTools == {"view_file", "create_file", "str_replace", "insert_line"}

(* the tool call names the path it worked on *)
NamesPath ==
    /\ ToolRan /\ RanTool.name \in PathTools
    /\ \/ Failed /\ RanOutput.error[1].lit = "File does not exist"
       \/ Succeeded /\ RanOutput.result[1].lit = "File created at"

NamedPath ==
    IF Failed THEN RanOutput.error[1].chars ELSE RanOutput.result[1].chars

(* C30: view_file, create_file, str_replace, insert_line and execute_bash    *)
(* turn the first "/repo" of the path or command, wherever it stands, into   *)
(* the working directory and leave every later "/repo" as it is.             *)
C30_FirstPlaceholderOnly ==
    /\ NamesPath => FirstOnly(RanInput.path[1], NamedPath)
    /\ (ToolRan /\ RanTool.name = "create_file" /\ Succeeded) =>
           \E p \in DOMAIN fs.files :
               /\ FirstOnly(RanInput.path[1], p) \/ FirstOnly(<<"/", "w", "/">> \o RanInput.path[1], p)
               /\ fs.files[p] = WrittenText
    /\ (ToolRan /\ lastRun[1].exec # None) =>
           FirstOnly(RanInput.command[1], lastRun[1].exec[1].command)

(* a command with two placeholders ran with the first one replaced *)
C30_Witness ==
    /\ ToolRan /\ RanTool.name = "execute_bash"
    /\ lastRun[1].exec # None
    /\ Cardinality(Occurrences(RanInput.command[1])) = 2
    /\ lastRun[1].exec[1].command
         = <<"l", "s", " ", "/", "w", " ", "/", "r", "e", "p", "o">>
=============================================================================
